---- MODULE Spec2Model ----
(***************************************************************************)
(* Model of the RoleRAG-PAIMON retrieval agent (query decomposition,       *)
(* entity/community search, reflection loop) and conversation memory.     *)
(***************************************************************************)
EXTENDS Integers, Sequences, FiniteSets, TLC

VARIABLES
    \* RetrievalAgent: graph and community list handed to the constructor
    entity_names,      \* list(graph.nodes())
    node_type,         \* graph.nodes[name]["type"], indexed like entity_names
    communities,       \* list of community records
    \* RetrievalAgent.retrieve: position and locals
    pc,
    query,
    max_iterations,
    subqueries,
    all_retrieved,
    iteration,
    is_sufficient,     \* <<>> before the first reflection, one element (TRUE or FALSE) after
    new_subquery,      \* <<>> is None
    reflections,       \* what each reflect_and_iterate call of this retrieve returned
    retrieveCalls,     \* retrieve_subquery invocations of this retrieve
    decomp_reply,      \* what the collaborator answered to the decomposition prompt
    reflect_reply,     \* what the collaborator answered to the last reflection prompt
    raised,            \* an exception escaped the running operation
    \* search_entities / search_communities: arguments and locals of the last call
    search,
    \* MemoryManager
    turns,
    cache,             \* dict in insertion order: sequence of [key, value]
    memop,             \* last MemoryManager operation and what it returned
    memory_file,       \* what save_memory last wrote to the memory file
    \* KnowledgeGraphBuilder
    entities,          \* dict name -> entity data, in insertion order
    relationships,
    similar,           \* the pairs of names whose cosine similarity is >= the threshold
    duplicates,        \* what find_duplicate_entities last returned
    graph,             \* the edges of self.graph with their attributes
    kg,                \* last KnowledgeGraphBuilder operation
    \* CommunityDetector
    det_node_type,     \* the "type" attribute of the nodes of the detector's graph
    det_communities,   \* self.communities
    det,               \* last CommunityDetector operation and what it returned
    \* graph-lookup agent (retrieval_agent.py, search_graph)
    lg,                \* self.graph: nodes and edges in iteration order
    lookup,            \* last search_graph call and what it returned
    \* GeminiClient.generate: position and locals of the running call
    gen,
    \* RoleRAGSystem.query: position and locals of the running call
    sys

vars == <<entity_names, node_type, communities, pc, query, max_iterations,
          subqueries, all_retrieved, iteration, is_sufficient, new_subquery,
          reflections, retrieveCalls, decomp_reply, reflect_reply, raised, search,
          turns, cache, memop, memory_file,
          entities, relationships, similar, duplicates, graph, kg,
          det_node_type, det_communities, det, lg, lookup, gen, sys>>

graphVars == <<entity_names, node_type, communities>>
retrieveVars == <<pc, query, max_iterations, subqueries, all_retrieved, iteration,
                  is_sufficient, new_subquery, reflections, retrieveCalls,
                  decomp_reply, reflect_reply, raised>>
memVars == <<turns, cache, memop, memory_file>>
kgVars == <<entities, relationships, similar, duplicates, graph, kg>>
detVars == <<det_node_type, det_communities, det>>
buildVars == <<kgVars, detVars>>
lookupVars == <<lg, lookup>>
genVars == <<gen>>
sysVars == <<sys>>
auxVars == <<lookupVars, genVars, sysVars>>

\* ------------------------------------------------------------------ bounds
MaxIter == 2
MaxSubqueries == 2
MaxPriority == 2
MaxEntities == 3
MaxCommunities == 2
MaxScore == 1
MaxTopK == 2
MaxTurns == 2

\* ------------------------------------------------------------- vocabulary
Absent == "<absent>"          \* key missing from a JSON object
NonString == "<nonstring>"    \* a truthy JSON value that is not a string
Texts == {"q1", "q2"}
ReflectText == "q3"
Kinds == {"character", "event"}
OtherKind == "location"

Min(a, b) == IF a < b THEN a ELSE b

Range(s) == {s[i] : i \in 1..Len(s)}

SeqsUpTo(S, n) == UNION {[1..k -> S] : k \in 0..n}

\* --------------------------------------------------- generation collaborator
\* A SubQuery payload as it appears in the collaborator's JSON.
NoSqData == [ismap |-> TRUE, text |-> Absent, type |-> Absent, haspri |-> FALSE, priority |-> 1]

\* json.loads("{}")
EmptyObj == [isobj |-> TRUE,
             has_subqueries |-> FALSE, subq_iter |-> TRUE, subq_items |-> <<>>,
             has_suff |-> FALSE, suff |-> FALSE,
             has_new |-> FALSE, new |-> NoSqData]

NonObj == [EmptyObj EXCEPT !.isobj = FALSE]

Fences == {"none", "json", "plain"}

\* What generate() does for one generate_json call: it raises after its
\* retries, or it returns text = [chatter] [fence] body [fence] [chatter].
Reply(raises, fence, chatter, ok, val) ==
    [raises |-> raises, fence |-> fence, chatter |-> chatter, ok |-> ok, val |-> val]

RepliesOver(vals) ==
    {Reply(TRUE, "none", FALSE, FALSE, EmptyObj)}
    \cup {Reply(FALSE, f, c, FALSE, EmptyObj) : f \in Fences, c \in BOOLEAN}
    \cup {Reply(FALSE, f, c, TRUE, v) : f \in Fences, c \in BOOLEAN, v \in vals}

\* GeminiClient.generate_json: strip a markdown fence when there is one, then
\* json.loads; a JSONDecodeError gives {}, an error of generate() propagates.
GenerateJson(reply) ==
    IF reply.raises THEN [raised |-> TRUE, val |-> EmptyObj]
    ELSE LET stripped == reply.fence \in {"json", "plain"}
             \* without a fence the text is parsed whole, chatter included
             parses == reply.ok /\ (stripped \/ ~reply.chatter)
         IN  IF parses THEN [raised |-> FALSE, val |-> reply.val]
             ELSE [raised |-> FALSE, val |-> EmptyObj]

\* ------------------------------------------------------------------ SubQuery
SubQuery(text, type, priority) == [text |-> text, type |-> type, priority |-> priority]

\* SubQuery(**d) validates: d is a mapping, text and type are strings.
SubQueryValid(d) ==
    /\ d.ismap
    /\ d.text \notin {Absent, NonString}
    /\ d.type \notin {Absent, NonString}

MakeSubQuery(d) == SubQuery(d.text, d.type, IF d.haspri THEN d.priority ELSE 1)

\* sorted(subqueries, key=lambda x: x.priority): stable insertion by priority
RECURSIVE InsertByPriority(_, _)
InsertByPriority(sq, sorted) ==
    IF sorted = <<>> THEN <<sq>>
    ELSE IF sq.priority < Head(sorted).priority THEN <<sq>> \o sorted
    ELSE <<Head(sorted)>> \o InsertByPriority(sq, Tail(sorted))

RECURSIVE SortedByPriority(_)
SortedByPriority(s) ==
    IF s = <<>> THEN <<>>
    ELSE InsertByPriority(s[Len(s)], SortedByPriority(SubSeq(s, 1, Len(s) - 1)))

\* the inner try/except of decompose_query: malformed items are skipped
RECURSIVE BuildSubQueries(_)
BuildSubQueries(items) ==
    IF items = <<>> THEN <<>>
    ELSE (IF SubQueryValid(Head(items)) THEN <<MakeSubQuery(Head(items))>> ELSE <<>>)
         \o BuildSubQueries(Tail(items))

\* RetrievalAgent.decompose_query, the body of its try block: raised is TRUE
\* where a statement of the block throws.
decompose_try(q, reply) ==
    LET thrown == [raised |-> TRUE, value |-> <<>>]
        r == GenerateJson(reply)
    IN  IF r.raised THEN thrown                         \* generate() raised
        ELSE IF ~r.val.isobj THEN thrown                \* result.get: AttributeError
        ELSE LET has == r.val.has_subqueries
             IN  IF has /\ ~r.val.subq_iter THEN thrown     \* for ... in: TypeError
                 ELSE [raised |-> FALSE,
                       value |-> SortedByPriority(
                                    BuildSubQueries(IF has THEN r.val.subq_items ELSE <<>>))]

\* RetrievalAgent.decompose_query: except Exception -> the whole query as one
\* character sub-query of priority 1
decompose_query(q, reply) ==
    LET t == decompose_try(q, reply)
    IN  IF t.raised
        THEN [raised |-> FALSE, value |-> <<SubQuery(q, "character", 1)>>]
        ELSE t

\* the try block handing an insufficient verdict through when the reply holds
\* no usable new sub-query: (False, None)
reflect_try_keeps_verdict(q, retrieved_info, reply) ==
    LET thrown == [raised |-> TRUE, is_sufficient |-> TRUE, new_subquery |-> <<>>]
        sufficient == [raised |-> FALSE, is_sufficient |-> TRUE, new_subquery |-> <<>>]
        insufficient == [raised |-> FALSE, is_sufficient |-> FALSE, new_subquery |-> <<>>]
        r == GenerateJson(reply)
    IN  IF r.raised THEN thrown
        ELSE IF ~r.val.isobj THEN thrown
        ELSE LET suff == IF r.val.has_suff THEN r.val.suff ELSE TRUE
                 new_sq_data == IF r.val.has_new THEN r.val.new ELSE NoSqData
             IN  IF suff THEN sufficient
                 ELSE IF ~new_sq_data.ismap THEN thrown
                 ELSE IF new_sq_data.text \in {Absent, ""} THEN insufficient
                 ELSE IF SubQueryValid(new_sq_data)
                      THEN [raised |-> FALSE, is_sufficient |-> FALSE,
                            new_subquery |-> <<MakeSubQuery(new_sq_data)>>]
                      ELSE insufficient

\* RetrievalAgent.reflect_and_iterate, the body of its try block
reflect_try(q, retrieved_info, reply) ==
    LET thrown == [raised |-> TRUE, is_sufficient |-> TRUE, new_subquery |-> <<>>]
        sufficient == [raised |-> FALSE, is_sufficient |-> TRUE, new_subquery |-> <<>>]
        r == GenerateJson(reply)
    IN  IF r.raised THEN thrown                         \* generate() raised
        ELSE IF ~r.val.isobj THEN thrown                \* result.get: AttributeError
        ELSE LET suff == IF r.val.has_suff THEN r.val.suff ELSE TRUE
                 new_sq_data == IF r.val.has_new THEN r.val.new ELSE NoSqData
             IN  IF suff THEN sufficient
                 ELSE IF ~new_sq_data.ismap THEN thrown      \* .get: AttributeError
                 ELSE IF new_sq_data.text \in {Absent, ""} THEN sufficient
                 ELSE IF SubQueryValid(new_sq_data)
                      THEN [raised |-> FALSE, is_sufficient |-> FALSE,
                            new_subquery |-> <<MakeSubQuery(new_sq_data)>>]
                      ELSE sufficient      \* SubQuery(**...) raised, caught inside

\* reflect_and_iterate without its except clause
reflect_and_iterate_propagating(q, retrieved_info, reply) ==
    reflect_try(q, retrieved_info, reply)

\* RetrievalAgent.reflect_and_iterate: except Exception -> (True, None)
reflect_and_iterate(q, retrieved_info, reply) ==
    LET t == reflect_try(q, retrieved_info, reply)
    IN  IF t.raised
        THEN [raised |-> FALSE, is_sufficient |-> TRUE, new_subquery |-> <<>>]
        ELSE t

\* ------------------------------------------------------------ similarity index
CommunityTypes == {"character-focused", "event-focused"}
NodeTypes == {"character", "non-character"}

\* np.argsort(similarities): a permutation of the indices in ascending order of
\* score; the default sort kind is not stable, equal scores come in any order.
Argsorts(sims) ==
    LET n == Len(sims)
    IN  {p \in [1..n -> 1..n] :
            /\ \A i, j \in 1..n : i # j => p[i] # p[j]
            /\ \A i \in 1..(n - 1) : sims[p[i]] <= sims[p[i + 1]]}

\* the ascending order taken as it is, "[::-1]" forgotten
Reverse_identity(s) == s

Reverse(s) == [i \in 1..Len(s) |-> s[Len(s) + 1 - i]]

\* a candidate pool of top_k, without the over-fetch
TopIndices_nooverfetch(order, top_k) == SubSeq(Reverse(order), 1, Min(top_k, Len(order)))

\* np.argsort(similarities)[::-1][:top_k * 2]
TopIndices(order, top_k) == SubSeq(Reverse(order), 1, Min(2 * top_k, Len(order)))

\* a filter that does not look at the node's type
EntityMatches_anytype(query_type, type) == query_type \in {"character", "event"}

\* the type filter of search_entities
EntityMatches(query_type, type) ==
    \/ query_type = "character" /\ type = "character"
    \/ query_type = "event" /\ type # "character"

\* the type filter of search_communities
CommunityMatches(query_type, type) ==
    \/ query_type = "character" /\ type = "character-focused"
    \/ query_type = "event" /\ type = "event-focused"
    \/ query_type \notin {"character", "event"}

\* the filter loop of search_entities: append on a match, stop at top_k results
RECURSIVE FilterEntities(_, _, _, _, _)
FilterEntities(top_indices, types, query_type, top_k, results) ==
    IF top_indices = <<>> THEN results
    ELSE LET idx == Head(top_indices)
             r == IF EntityMatches(query_type, types[idx])
                  THEN Append(results, idx) ELSE results
         IN  IF Len(r) >= top_k THEN r
             ELSE FilterEntities(Tail(top_indices), types, query_type, top_k, r)

\* the filter loop of search_communities
RECURSIVE FilterCommunities(_, _, _, _, _)
FilterCommunities(top_indices, types, query_type, top_k, results) ==
    IF top_indices = <<>> THEN results
    ELSE LET idx == Head(top_indices)
             r == IF CommunityMatches(query_type, types[idx])
                  THEN Append(results, idx) ELSE results
         IN  IF Len(r) >= top_k THEN r
             ELSE FilterCommunities(Tail(top_indices), types, query_type, top_k, r)

\* RetrievalAgent.search_entities, given the cosine similarities of the query
\* and the order argsort produced
search_entities(names, types, order, query_type, top_k) ==
    LET r == FilterEntities(TopIndices(order, top_k), types, query_type, top_k, <<>>)
    IN  [i \in 1..Len(r) |-> names[r[i]]]

\* RetrievalAgent.search_communities
search_communities(comms, order, query_type, top_k) ==
    LET types == [i \in 1..Len(comms) |-> comms[i].type]
        r == FilterCommunities(TopIndices(order, top_k), types, query_type, top_k, <<>>)
    IN  [i \in 1..Len(r) |-> comms[r[i]]]

Scores == 0..MaxScore
QueryTypes == Kinds \cup {OtherKind}

AllNames == <<"Alice", "Castle", "Bob", "Sword", "Carol", "Tower">>
AllIds == <<"community_0", "community_1", "community_2", "community_3", "community_4">>

NoSearch == [fn |-> "none", query_type |-> "", top_k |-> 0, similarities |-> <<>>,
             top_indices |-> <<>>, entity_results |-> <<>>, community_results |-> <<>>]

\* one call of search_entities(query, query_type, top_k)
SearchEntities ==
    /\ search.fn = "none"
    /\ \E query_type \in QueryTypes, top_k \in 0..MaxTopK,
          sims \in [1..Len(entity_names) -> Scores] :
         \E order \in Argsorts(sims) :
            search' = [fn |-> "search_entities", query_type |-> query_type,
                       top_k |-> top_k, similarities |-> sims,
                       top_indices |-> TopIndices(order, top_k),
                       entity_results |->
                           search_entities(entity_names, node_type, order, query_type, top_k),
                       community_results |-> <<>>]
    /\ UNCHANGED <<buildVars, auxVars, graphVars, retrieveVars, memVars>>

\* one call of search_communities(query, query_type, top_k)
SearchCommunities ==
    /\ search.fn = "none"
    /\ \E query_type \in QueryTypes, top_k \in 0..MaxTopK,
          sims \in [1..Len(communities) -> Scores] :
         \E order \in Argsorts(sims) :
            search' = [fn |-> "search_communities", query_type |-> query_type,
                       top_k |-> top_k, similarities |-> sims,
                       top_indices |-> TopIndices(order, top_k),
                       entity_results |-> <<>>,
                       community_results |->
                           search_communities(communities, order, query_type, top_k)]
    /\ UNCHANGED <<buildVars, auxVars, graphVars, retrieveVars, memVars>>

\* the caller takes the result
SearchReturn ==
    /\ search.fn # "none"
    /\ search' = NoSearch
    /\ UNCHANGED <<buildVars, auxVars, graphVars, retrieveVars, memVars>>

\* ------------------------------------------------------ RetrievalAgent.retrieve
DefaultMaxEntities == 5
DefaultMaxCommunities == 2

Queries == {"Q1"}

\* RetrievalAgent.retrieve_subquery, given the orders the two searches ranked in
retrieve_subquery(sq, eorder, corder) ==
    [subquery |-> sq.text,
     type |-> sq.type,
     entities |-> search_entities(entity_names, node_type, eorder, sq.type, DefaultMaxEntities),
     communities |-> search_communities(communities, corder, sq.type, DefaultMaxCommunities)]

\* the bundles retrieve_subquery can return for sq, over all similarity vectors
BundlesFor(sq) ==
    {retrieve_subquery(sq, eorder, corder) :
        eorder \in UNION {Argsorts(sims) : sims \in [1..Len(entity_names) -> Scores]},
        corder \in UNION {Argsorts(sims) : sims \in [1..Len(communities) -> Scores]}}

\* a sub-query payload with its fields present
SqData(text, type, haspri, priority) ==
    [ismap |-> TRUE, text |-> text, type |-> type, haspri |-> haspri, priority |-> priority]

NotAMapping == [NoSqData EXCEPT !.ismap = FALSE]

\* the sub-query payloads the collaborator may list in a decomposition:
\* malformed ones (not a mapping, no text, no type) and well-formed ones with
\* and without a priority
DecomposeSqDatas ==
    {NotAMapping, SqData(Absent, "event", FALSE, 1), SqData("q1", Absent, FALSE, 1)}
    \cup {SqData(t, "event", FALSE, 1) : t \in Texts}
    \cup {SqData(t, "event", TRUE, p) : t \in Texts, p \in 1..MaxPriority}

DecomposeVals ==
    {NonObj, EmptyObj, [EmptyObj EXCEPT !.has_subqueries = TRUE, !.subq_iter = FALSE]}
    \cup {[EmptyObj EXCEPT !.has_subqueries = TRUE, !.subq_items = items] :
            items \in SeqsUpTo(DecomposeSqDatas, MaxSubqueries)}

DecomposeReplies == RepliesOver(DecomposeVals)

\* the new_subquery payloads the collaborator may give in a reflection
ReflectSqDatas ==
    {NotAMapping}
    \cup {SqData(t, "character", FALSE, 1) : t \in {Absent, "", NonString}}
    \cup {SqData(ReflectText, k, FALSE, 1) : k \in {"character", OtherKind, Absent}}

\* reflection replies: not an object, {}, a verdict without or with a
\* new_subquery, a new_subquery without a verdict
ReflectVals ==
    {NonObj, EmptyObj,
     [EmptyObj EXCEPT !.has_new = TRUE, !.new = SqData(ReflectText, "character", FALSE, 1)]}
    \cup {[EmptyObj EXCEPT !.has_suff = TRUE, !.suff = sf] : sf \in BOOLEAN}
    \cup {[EmptyObj EXCEPT !.has_suff = TRUE, !.suff = sf, !.has_new = TRUE, !.new = d] :
            sf \in BOOLEAN, d \in ReflectSqDatas}

ReflectReplies == RepliesOver(ReflectVals)

\* the reply parses to a JSON value (through a fence, or bare without chatter)
Parses(reply) == reply.ok /\ (reply.fence # "none" \/ ~reply.chatter)

\* what the collaborator answered to the decomposition prompt
DecomposeClass(reply) ==
    IF reply.raises THEN "raised"
    ELSE IF ~Parses(reply) THEN "unparsable"
    ELSE IF ~reply.val.isobj THEN "not an object"
    ELSE IF ~reply.val.has_subqueries THEN "no list"
    ELSE IF ~reply.val.subq_iter THEN "not a list"
    ELSE IF reply.val.subq_items = <<>> THEN "empty list"
    ELSE IF \A i \in 1..Len(reply.val.subq_items) : ~SubQueryValid(reply.val.subq_items[i])
         THEN "all malformed"
    ELSE "sub-queries"

\* what the collaborator answered to the reflection prompt
ReflectClass(reply) ==
    IF reply.raises THEN "raised"
    ELSE IF ~Parses(reply) THEN "unparsable"
    ELSE IF ~reply.val.isobj THEN "not an object"
    ELSE IF ~reply.val.has_suff THEN "no verdict"
    ELSE IF reply.val.suff THEN "sufficient"
    ELSE IF ~reply.val.has_new THEN "insufficient, no sub-query"
    ELSE IF ~SubQueryValid(reply.val.new) \/ reply.val.new.text = ""
         THEN "insufficient, unusable sub-query"
    ELSE "insufficient, new sub-query"

\* "while iteration < max_iterations" admitting one round too many
WhileCondition_inclusive(it, m) == it <= m

\* "while iteration < max_iterations"
WhileCondition(it, m) == it < m

\* a loop that goes on after a sufficient verdict
AfterReflect_nobreak(r) ==
    IF r.raised THEN "failed" ELSE "round"

\* where retrieve continues after reflect_and_iterate returned r:
\* "if is_sufficient: break"
AfterReflect(r) ==
    IF r.raised THEN "failed"
    ELSE IF r.is_sufficient THEN "done"
    ELSE "round"

\* retrieve(query, max_iterations) is called
Retrieve ==
    /\ pc = "idle"
    /\ \E q \in Queries, m \in 0..MaxIter :
         /\ query' = q
         /\ max_iterations' = m
    /\ pc' = "decompose"
    /\ subqueries' = <<>>
    /\ all_retrieved' = <<>>
    /\ iteration' = 0
    /\ is_sufficient' = <<>>
    /\ new_subquery' = <<>>
    /\ reflections' = <<>>
    /\ retrieveCalls' = 0
    /\ decomp_reply' = ""
    /\ reflect_reply' = ""
    /\ raised' = FALSE
    /\ UNCHANGED <<buildVars, auxVars, graphVars, search, memVars>>

\* Step 1: subqueries = self.decompose_query(query)
Decompose ==
    /\ pc = "decompose"
    /\ \E reply \in DecomposeReplies :
         LET d == decompose_query(query, reply)
         IN  /\ raised' = d.raised
             /\ subqueries' = d.value
             /\ pc' = IF d.raised THEN "failed" ELSE "retrieving"
             /\ decomp_reply' = DecomposeClass(reply)
    /\ UNCHANGED <<buildVars, auxVars, graphVars, query, max_iterations, all_retrieved, iteration,
                   is_sufficient, new_subquery, reflections, retrieveCalls,
                   reflect_reply, search, memVars>>

\* Step 2, one pass of "for sq in subqueries"
RetrieveInitial ==
    /\ pc = "retrieving"
    /\ Len(all_retrieved) < Len(subqueries)
    /\ \E b \in BundlesFor(subqueries[Len(all_retrieved) + 1]) :
         all_retrieved' = Append(all_retrieved, b)
    /\ retrieveCalls' = retrieveCalls + 1
    /\ UNCHANGED <<buildVars, auxVars, graphVars, pc, query, max_iterations, subqueries, iteration,
                   is_sufficient, new_subquery, reflections, decomp_reply,
                   reflect_reply, raised, search, memVars>>

\* the for loop is exhausted: iteration = 0 and the while loop is entered
EnterReflection ==
    /\ pc = "retrieving"
    /\ Len(all_retrieved) = Len(subqueries)
    /\ iteration' = 0
    /\ pc' = "reflecting"
    /\ UNCHANGED <<buildVars, auxVars, graphVars, query, max_iterations, subqueries, all_retrieved,
                   is_sufficient, new_subquery, reflections, retrieveCalls,
                   decomp_reply, reflect_reply, raised, search, memVars>>

\* Step 3, "while iteration < max_iterations": one reflect_and_iterate call;
\* "if is_sufficient: break"
Reflect ==
    /\ pc = "reflecting"
    /\ WhileCondition(iteration, max_iterations)
    /\ \E reply \in ReflectReplies :
         LET r == reflect_and_iterate(query, all_retrieved, reply)
         IN  /\ raised' = r.raised
             /\ is_sufficient' = <<r.is_sufficient>>
             /\ new_subquery' = r.new_subquery
             /\ reflections' = Append(reflections,
                                      [is_sufficient |-> r.is_sufficient,
                                       new_subquery |-> r.new_subquery])
             /\ reflect_reply' = ReflectClass(reply)
             /\ pc' = AfterReflect(r)
    /\ UNCHANGED <<buildVars, auxVars, graphVars, query, max_iterations, subqueries, all_retrieved,
                   iteration, retrieveCalls, decomp_reply, search, memVars>>

\* the rest of an insufficient round: "if new_subquery:" retrieve and append,
\* then iteration += 1
RetrieveRound ==
    /\ pc = "round"
    /\ IF new_subquery # <<>>
       THEN /\ \E b \in BundlesFor(new_subquery[1]) :
                 all_retrieved' = Append(all_retrieved, b)
            /\ retrieveCalls' = retrieveCalls + 1
       ELSE UNCHANGED <<all_retrieved, retrieveCalls>>
    /\ iteration' = iteration + 1
    /\ pc' = "reflecting"
    /\ UNCHANGED <<buildVars, auxVars, graphVars, query, max_iterations, subqueries, is_sufficient,
                   new_subquery, reflections, decomp_reply, reflect_reply, raised,
                   search, memVars>>

\* the while condition fails: the budget is exhausted
Exhausted ==
    /\ pc = "reflecting"
    /\ ~WhileCondition(iteration, max_iterations)
    /\ pc' = "done"
    /\ UNCHANGED <<buildVars, auxVars, graphVars, query, max_iterations, subqueries, all_retrieved,
                   iteration, is_sufficient, new_subquery, reflections,
                   retrieveCalls, decomp_reply, reflect_reply, raised, search, memVars>>

\* return all_retrieved; the agent is ready for the next query
Return ==
    /\ pc = "done"
    /\ pc' = "idle"
    /\ query' = ""
    /\ max_iterations' = 0
    /\ subqueries' = <<>>
    /\ all_retrieved' = <<>>
    /\ iteration' = 0
    /\ is_sufficient' = <<>>
    /\ new_subquery' = <<>>
    /\ reflections' = <<>>
    /\ retrieveCalls' = 0
    /\ decomp_reply' = ""
    /\ reflect_reply' = ""
    /\ raised' = FALSE
    /\ UNCHANGED <<buildVars, auxVars, graphVars, search, memVars>>

\* ---------------------------------------------------------------- MemoryManager
HistoryLimit == 1
MaxCacheArg == 2
MaxSavedTurns == 1
MaxRecentK == 3

\* the retrieved-context dicts handed to add_turn: the "subquery" key may be
\* missing or empty, and two different bundles may carry the same key
MemBundle(key, ents) ==
    [subquery |-> key, type |-> "character", entities |-> ents, communities |-> <<>>]

\* the retrieved_context lists handed to add_turn: none, one bundle, the same
\* key twice, a key and an empty key, a missing key, two different keys
RetrievedContexts ==
    {<<>>,
     <<MemBundle("q1", <<>>)>>,
     <<MemBundle("q1", <<>>), MemBundle("q1", <<"Alice">>)>>,
     <<MemBundle("q2", <<>>), MemBundle("", <<>>)>>,
     <<MemBundle(Absent, <<>>)>>,
     <<MemBundle("q3", <<>>), MemBundle("q1", <<"Alice">>)>>}

ConversationTurn(q, response, summary, retrieved_context) ==
    [query |-> q, response |-> response, summary |-> summary,
     retrieved_context |-> retrieved_context]

\* dict operations on the insertion-ordered cache
CacheKeys(c) == {c[i].key : i \in 1..Len(c)}

CacheGet(c, k) == c[CHOOSE i \in 1..Len(c) : c[i].key = k].value

\* dict.setdefault(k, v): the first bundle of a key is kept
CacheSet_keepfirst(c, k, v) ==
    IF k \in CacheKeys(c) THEN c ELSE Append(c, [key |-> k, value |-> v])

\* c[k] = v: an existing key keeps its position, a new key goes last
CacheSet(c, k, v) ==
    IF k \in CacheKeys(c)
    THEN [i \in 1..Len(c) |-> IF c[i].key = k THEN [key |-> k, value |-> v] ELSE c[i]]
    ELSE Append(c, [key |-> k, value |-> v])

\* context.get("subquery", "unknown"): a bundle without the key is cached too
ContextKey_unknown(context) ==
    IF context.subquery = Absent THEN "unknown" ELSE context.subquery

\* context.get("subquery", "")
ContextKey(context) == IF context.subquery = Absent THEN "" ELSE context.subquery

\* the cache loop of MemoryManager.add_turn
RECURSIVE UpdateCache(_, _)
UpdateCache(c, retrieved_context) ==
    IF retrieved_context = <<>> THEN c
    ELSE LET context == Head(retrieved_context)
             cache_key == ContextKey(context)
         IN  UpdateCache(IF cache_key # "" THEN CacheSet(c, cache_key, context) ELSE c,
                         Tail(retrieved_context))

\* ConversationMemory.get_recent_turns
get_recent_turns(ts, k) ==
    IF Len(ts) >= k
    THEN (IF k = 0 THEN ts ELSE SubSeq(ts, Len(ts) - k + 1, Len(ts)))   \* ts[-k:]
    ELSE ts

\* cached_info.extend(turn.retrieved_context) over the recent turns
RECURSIVE CachedInfo(_)
CachedInfo(ts) ==
    IF ts = <<>> THEN <<>>
    ELSE Head(ts).retrieved_context \o CachedInfo(Tail(ts))

\* result.get("is_sufficient", True): a missing verdict counts as sufficient
check_cache_try_default_true(cached_info, reply) ==
    LET thrown == [raised |-> TRUE, is_cached |-> FALSE, info |-> <<>>, gen_calls |-> 1]
        r == GenerateJson(reply)
    IN  IF r.raised THEN thrown
        ELSE IF ~r.val.isobj THEN thrown
        ELSE LET suff == IF r.val.has_suff THEN r.val.suff ELSE TRUE
             IN  IF suff
                 THEN [raised |-> FALSE, is_cached |-> TRUE, info |-> cached_info,
                       gen_calls |-> 1]
                 ELSE [raised |-> FALSE, is_cached |-> FALSE, info |-> <<>>,
                       gen_calls |-> 1]

\* MemoryManager.check_cache, the body of its try block
check_cache_try(cached_info, reply) ==
    LET thrown == [raised |-> TRUE, is_cached |-> FALSE, info |-> <<>>, gen_calls |-> 1]
        r == GenerateJson(reply)
    IN  IF r.raised THEN thrown                         \* generate() raised
        ELSE IF ~r.val.isobj THEN thrown                \* result.get: AttributeError
        ELSE LET suff == IF r.val.has_suff THEN r.val.suff ELSE FALSE
             IN  IF suff
                 THEN [raised |-> FALSE, is_cached |-> TRUE, info |-> cached_info,
                       gen_calls |-> 1]
                 ELSE [raised |-> FALSE, is_cached |-> FALSE, info |-> <<>>,
                       gen_calls |-> 1]

\* check_cache without its "if not self.memory.cache" return
check_cache_no_empty_guard(ts, c, subquery, reply) ==
    LET none == [raised |-> FALSE, is_cached |-> FALSE, info |-> <<>>, gen_calls |-> 0]
        cached_info == CachedInfo(get_recent_turns(ts, HistoryLimit))
    IN  IF cached_info = <<>> THEN none
        ELSE LET t == check_cache_try(cached_info, reply)
             IN  IF t.raised THEN [none EXCEPT !.gen_calls = 1] ELSE t

\* MemoryManager.check_cache
check_cache(ts, c, subquery, reply) ==
    LET none == [raised |-> FALSE, is_cached |-> FALSE, info |-> <<>>, gen_calls |-> 0]
        cached_info == CachedInfo(get_recent_turns(ts, HistoryLimit))
    IN  IF c = <<>> THEN none
        ELSE IF cached_info = <<>> THEN none
        ELSE LET t == check_cache_try(cached_info, reply)
             IN  IF t.raised THEN [none EXCEPT !.gen_calls = 1] ELSE t

\* MemoryManager.clear_old_cache: cache_items[-max_cache_size:]
clear_old_cache(c, max_cache_size) ==
    IF Len(c) > max_cache_size
    THEN (IF max_cache_size = 0 THEN c
          ELSE SubSeq(c, Len(c) - max_cache_size + 1, Len(c)))
    ELSE c

CheckCacheVals ==
    {NonObj, EmptyObj}
    \cup {[EmptyObj EXCEPT !.has_suff = TRUE, !.suff = sf] : sf \in BOOLEAN}

CheckCacheReplies == RepliesOver(CheckCacheVals)

\* what the collaborator answered to the cache-check prompt
Verdict(reply) ==
    IF reply.raises THEN "raised"
    ELSE IF ~Parses(reply) THEN "unparsable"
    ELSE IF ~reply.val.isobj THEN "not an object"
    ELSE IF ~reply.val.has_suff THEN "missing"
    ELSE IF reply.val.suff THEN "sufficient"
    ELSE "not sufficient"

\* the last MemoryManager call with its arguments, what it returned and what the
\* collaborator was asked; op = "none" between calls
MemOp(op) == [op |-> op, raised |-> FALSE, is_cached |-> FALSE, info |-> <<>>,
              gen_calls |-> 0, verdict |-> "", bundles |-> <<>>, max_cache_size |-> 0,
              k |-> 0, recent |-> <<>>]

TurnQueries == {"Q1"}

\* check_cache(subquery)
CheckCache ==
    /\ memop.op = "none"
    /\ \E subquery \in Texts, reply \in CheckCacheReplies :
         LET r == check_cache(turns, cache, subquery, reply)
         IN  memop' = [MemOp("check_cache") EXCEPT
                          !.raised = r.raised, !.is_cached = r.is_cached,
                          !.info = r.info, !.gen_calls = r.gen_calls,
                          !.verdict = IF r.gen_calls = 0 THEN "" ELSE Verdict(reply)]
    /\ UNCHANGED <<turns, cache, memory_file, buildVars, auxVars, graphVars, retrieveVars, search>>

\* add_turn(query, response, summary, retrieved_context)
AddTurn ==
    /\ memop.op = "none"
    /\ Len(turns) < MaxTurns
    /\ \E q \in TurnQueries, retrieved_context \in RetrievedContexts :
         /\ turns' = Append(turns, ConversationTurn(q, "response", "summary",
                                                    retrieved_context))
         /\ cache' = UpdateCache(cache, retrieved_context)
         /\ memop' = [MemOp("add_turn") EXCEPT !.bundles = retrieved_context]
    /\ UNCHANGED <<memory_file, buildVars, auxVars, graphVars, retrieveVars, search>>

\* clear_old_cache(max_cache_size)
ClearOldCache ==
    /\ memop.op = "none"
    /\ \E max_cache_size \in 0..MaxCacheArg :
         /\ cache' = clear_old_cache(cache, max_cache_size)
         /\ memop' = [MemOp("clear_old_cache") EXCEPT !.max_cache_size = max_cache_size]
    /\ UNCHANGED <<turns, memory_file, buildVars, auxVars, graphVars, retrieveVars, search>>

\* self.memory.get_recent_turns(k), as get_recent_context(k) calls it
GetRecentTurns ==
    /\ memop.op = "none"
    /\ \E k \in 0..MaxRecentK :
         memop' = [MemOp("get_recent_turns") EXCEPT
                      !.k = k, !.recent = get_recent_turns(turns, k)]
    /\ UNCHANGED <<turns, cache, memory_file, buildVars, auxVars, graphVars, retrieveVars,
                   search>>

\* ---- the memory file: a JSON document
\* A JSON value: a string, an array of values, or an object whose members are
\* kept as key, value, key, value, ... in document order.
JsonStr(str) == [t |-> "string", s |-> str, m |-> <<>>]
JsonArr(items) == [t |-> "array", s |-> "", m |-> items]
JsonObj(members) == [t |-> "object", s |-> "", m |-> members]

JsonStrs(strs) == JsonArr([i \in 1..Len(strs) |-> JsonStr(strs[i])])

\* d.get(key): the value of the last member named key (json.load keeps the last)
JsonHas(obj, key) == \E i \in 1..(Len(obj.m) \div 2) : obj.m[2 * i - 1] = JsonStr(key)

JsonGet(obj, key) ==
    LET n == Len(obj.m) \div 2
        i == CHOOSE j \in 1..n :
                /\ obj.m[2 * j - 1] = JsonStr(key)
                /\ \A k \in (j + 1)..n : obj.m[2 * k - 1] # JsonStr(key)
    IN  obj.m[2 * i]

\* json.dump of one retrieved-context dict: its keys in insertion order, a key
\* the dict does not have is not written
DumpBundle(b) ==
    JsonObj((IF b.subquery = Absent THEN <<>>
             ELSE <<JsonStr("subquery"), JsonStr(b.subquery)>>)
            \o <<JsonStr("type"), JsonStr(b.type),
                 JsonStr("entities"), JsonStrs(b.entities),
                 JsonStr("communities"), JsonStrs(b.communities)>>)

\* json.load of one retrieved-context dict
LoadStrs(arr) == [i \in 1..Len(arr.m) |-> arr.m[i].s]

LoadBundle(obj) ==
    [subquery |-> IF JsonHas(obj, "subquery") THEN JsonGet(obj, "subquery").s ELSE Absent,
     type |-> JsonGet(obj, "type").s,
     entities |-> LoadStrs(JsonGet(obj, "entities")),
     communities |-> LoadStrs(JsonGet(obj, "communities"))]

DumpBundles(bs) == JsonArr([i \in 1..Len(bs) |-> DumpBundle(bs[i])])

\* turn.model_dump() without its retrieved_context field
model_dump_exclude_context(turn) ==
    JsonObj(<<JsonStr("query"), JsonStr(turn.query),
              JsonStr("response"), JsonStr(turn.response),
              JsonStr("summary"), JsonStr(turn.summary)>>)

\* turn.model_dump(): the fields of ConversationTurn in declaration order
model_dump(turn) ==
    JsonObj(<<JsonStr("query"), JsonStr(turn.query),
              JsonStr("response"), JsonStr(turn.response),
              JsonStr("summary"), JsonStr(turn.summary),
              JsonStr("retrieved_context"), DumpBundles(turn.retrieved_context)>>)

\* ConversationTurn(**turn_data): retrieved_context defaults to the empty list
LoadTurn(obj) ==
    ConversationTurn(JsonGet(obj, "query").s, JsonGet(obj, "response").s,
                     JsonGet(obj, "summary").s,
                     IF JsonHas(obj, "retrieved_context")
                     THEN LET arr == JsonGet(obj, "retrieved_context")
                          IN  [i \in 1..Len(arr.m) |-> LoadBundle(arr.m[i])]
                     ELSE <<>>)

\* json.dump of the cache dict: one member per key, in insertion order
RECURSIVE DumpCacheMembers(_)
DumpCacheMembers(c) ==
    IF c = <<>> THEN <<>>
    ELSE <<JsonStr(Head(c).key), DumpBundle(Head(c).value)>> \o DumpCacheMembers(Tail(c))

\* json.load of the cache object: a dict filled member by member
RECURSIVE LoadCacheMembers(_, _)
LoadCacheMembers(members, c) ==
    IF members = <<>> THEN c
    ELSE LoadCacheMembers(Tail(Tail(members)),
                          CacheSet(c, members[1].s, LoadBundle(members[2])))

\* MemoryManager.save_memory: the document json.dump writes
save_memory(ts, c) ==
    JsonObj(<<JsonStr("turns"), JsonArr([i \in 1..Len(ts) |-> model_dump(ts[i])]),
              JsonStr("cache"), JsonObj(DumpCacheMembers(c))>>)

\* MemoryManager.load_memory: the saved turns are appended to the turns the
\* memory holds, the cache is replaced
load_memory(ts, c, memory_data) ==
    [turns |-> ts \o (IF JsonHas(memory_data, "turns")
                      THEN LET arr == JsonGet(memory_data, "turns")
                           IN  [i \in 1..Len(arr.m) |-> LoadTurn(arr.m[i])]
                      ELSE <<>>),
     cache |-> IF JsonHas(memory_data, "cache")
               THEN LoadCacheMembers(JsonGet(memory_data, "cache").m, <<>>)
               ELSE <<>>]

\* the memory file: data is the document in it; saved is the memory save_memory
\* was called on (history, not part of the file)
NoFile == [exists |-> FALSE, data |-> JsonObj(<<>>),
           saved |-> [turns |-> <<>>, cache |-> <<>>]]

\* save_memory(output_file)
SaveMemory ==
    /\ memop.op = "none"
    /\ Len(turns) <= MaxSavedTurns
    /\ memory_file' = [exists |-> TRUE, data |-> save_memory(turns, cache),
                       saved |-> [turns |-> turns, cache |-> cache]]
    /\ memop' = MemOp("save_memory")
    /\ UNCHANGED <<turns, cache, buildVars, auxVars, graphVars, retrieveVars, search>>

\* load_memory(input_file); open() raises when there is no file
LoadMemory ==
    /\ memop.op = "none"
    /\ IF memory_file.exists
       THEN LET loaded == load_memory(turns, cache, memory_file.data)
            IN  /\ Len(loaded.turns) <= MaxTurns
                /\ turns' = loaded.turns
                /\ cache' = loaded.cache
                /\ memop' = MemOp("load_memory")
       ELSE /\ memop' = [MemOp("load_memory") EXCEPT !.raised = TRUE]
            /\ UNCHANGED <<turns, cache>>
    /\ UNCHANGED <<memory_file, buildVars, auxVars, graphVars, retrieveVars, search>>

\* MemoryManager(...): a new session starts with an empty memory, the file stays
NewMemoryManager ==
    /\ memop.op = "none"
    /\ turns # <<>>
    /\ turns' = <<>>
    /\ cache' = <<>>
    /\ memop' = MemOp("__init__")
    /\ UNCHANGED <<memory_file, buildVars, auxVars, graphVars, retrieveVars, search>>

\* the caller takes the result of the call
MemReturn ==
    /\ memop.op # "none"
    /\ memop' = MemOp("none")
    /\ UNCHANGED <<turns, cache, memory_file, buildVars, auxVars, graphVars, retrieveVars, search>>

\* ------------------------------------------------------- KnowledgeGraphBuilder
MaxKgEntities == 4
MaxGroup == 3

KgNames == <<"Alice", "Alicia", "Bob", "Castle", "Tower", "Carol">>

NoneValue == "<None>"

Character(persona, style_description, style_exemplars) ==
    [type |-> "character", persona |-> persona, style_description |-> style_description,
     style_exemplars |-> style_exemplars, description |-> Absent]

NonCharacter(description) ==
    [type |-> "non-character", persona |-> Absent, style_description |-> Absent,
     style_exemplars |-> <<>>, description |-> description]

\* the entity data load_entities reads: strings of different and of equal
\* length, missing fields, exemplar lists that overlap and that repeat an item
EntityProfiles ==
    {Character("A hero", "calm", <<"e1">>),
     Character("A heroine", "bold", <<"e1", "e2">>),
     Character("A king", "cheerful", <<"e2", "e1">>),
     Character(Absent, Absent, <<"e3", "e3">>),
     NonCharacter("castle"),
     NonCharacter("old castle"),
     NonCharacter("a tower"),
     NonCharacter(Absent)}

Named(name, profile) ==
    [name |-> name, type |-> profile.type, persona |-> profile.persona,
     style_description |-> profile.style_description,
     style_exemplars |-> profile.style_exemplars, description |-> profile.description]

\* the store of the scenario, by position: Alice and Alicia are characters
\* whose personas differ in length
ScenarioProfiles ==
    <<Character("A hero", "calm", <<"e1">>),
      Character("A heroine", "bold", <<"e1", "e2">>),
      Character("A king", "cheerful", <<"e2", "e1">>),
      NonCharacter("castle"),
      NonCharacter("old castle"),
      Character("A hero", "calm", <<>>)>>

Relationship(source, target, description, attitude, strength) ==
    [source |-> source, target |-> target, description |-> description,
     attitude |-> attitude, strength |-> strength]

\* the relationship lists load_relationships reads (strength in tenths): several
\* relationships of one pair, in both orders of strength and of direction, a
\* self-loop, and endpoints that a merge maps onto each other
RelationshipLists ==
    {<<>>,
     <<Relationship("Alice", "Bob", "ally", "warm", 9),
       Relationship("Alicia", "Bob", "cousin", NoneValue, 3),
       Relationship("Alice", "Alicia", "same", NoneValue, 5),
       Relationship("Bob", "Bob", "self", NoneValue, 5),
       Relationship("Bob", "Castle", "lives in", NoneValue, 5)>>,
     <<Relationship("Alice", "Bob", "rival", NoneValue, 3),
       Relationship("Alice", "Bob", "ally", "warm", 9)>>,
     <<Relationship("Alice", "Bob", "ally", "warm", 9),
       Relationship("Alice", "Bob", "rival", NoneValue, 3)>>,
     <<Relationship("Bob", "Alice", "ally", "warm", 9),
       Relationship("Castle", "Bob", "home of", NoneValue, 5),
       Relationship("Alice", "Bob", "rival", NoneValue, 3)>>}

\* entity.get(field, "")
Field(entity, field) == IF entity[field] = Absent THEN "" ELSE entity[field]

\* dict operations on the insertion-ordered entity store
EntityNames(ents) == [i \in 1..Len(ents) |-> ents[i].name]

HasEntity(ents, name) == \E i \in 1..Len(ents) : ents[i].name = name

GetEntity(ents, name) == ents[CHOOSE i \in 1..Len(ents) : ents[i].name = name]

SetEntity(ents, name, entity) ==
    [i \in 1..Len(ents) |-> IF ents[i].name = name THEN entity ELSE ents[i]]

\* the duplicate stays in the store
DelEntity_keep(ents, name) == ents

\* del self.entities[name]
DelEntity(ents, name) == SelectSeq(ents, LAMBDA e : e.name # name)

\* the text find_duplicate_entities vectorizes, as far as a merge can change it
EntityText(entity) ==
    IF entity.type = "character"
    THEN <<entity.name, Field(entity, "persona")>>
    ELSE <<entity.name, Field(entity, "description")>>

Pairs(names) == {{a, b} : a, b \in names} \ {{a} : a \in names}

\* similarity_matrix[i][j] >= similarity_threshold; an entity is similar to itself
Similar(sim, a, b) == a = b \/ {a, b} \in sim

\* np.where(similarity_matrix[i] >= similarity_threshold)[0], as names
SimilarNames(ents, sim, i) ==
    SelectSeq(EntityNames(ents), LAMBDA name : Similar(sim, ents[i].name, name))

\* the loop of find_duplicate_entities from index i on
RECURSIVE FindFrom(_, _, _, _, _)
FindFrom(ents, sim, i, dups, processed) ==
    IF i > Len(ents) THEN dups
    ELSE IF ents[i].name \in processed THEN FindFrom(ents, sim, i + 1, dups, processed)
    ELSE LET group == SimilarNames(ents, sim, i)
         IN  IF Len(group) > 1
             THEN FindFrom(ents, sim, i + 1, CacheSet(dups, Head(group), Tail(group)),
                           processed \cup Range(group))
             ELSE FindFrom(ents, sim, i + 1, dups, processed)

\* KnowledgeGraphBuilder.find_duplicate_entities: a dict canonical -> duplicates
find_duplicate_entities(ents, sim) ==
    IF Len(ents) < 2 THEN <<>> ELSE FindFrom(ents, sim, 1, <<>>, {})

\* the duplicate_to_canonical dict of merge_duplicate_entities
RECURSIVE MapDups(_, _, _)
MapDups(d2c, canonical, dups) ==
    IF dups = <<>> THEN d2c
    ELSE MapDups(CacheSet(d2c, Head(dups), canonical), canonical, Tail(dups))

RECURSIVE DuplicateToCanonical(_, _)
DuplicateToCanonical(groups, d2c) ==
    IF groups = <<>> THEN d2c
    ELSE DuplicateToCanonical(Tail(groups),
                              MapDups(d2c, Head(groups).key, Head(groups).value))

\* duplicate_to_canonical.get(name, name)
MapName(d2c, name) == IF name \in CacheKeys(d2c) THEN CacheGet(d2c, name) ELSE name

\* exemplars.append(ex) for every ex not in exemplars
RECURSIVE AppendNew(_, _)
AppendNew(exemplars, more) ==
    IF more = <<>> THEN exemplars
    ELSE AppendNew(IF Head(more) \in Range(exemplars) THEN exemplars
                   ELSE Append(exemplars, Head(more)),
                   Tail(more))

\* a duplicate's string replaces the canonical's already at equal length
Longer_orequal(dup_entity, canonical_entity, field) ==
    IF Len(Field(dup_entity, field)) >= Len(Field(canonical_entity, field))
    THEN dup_entity[field] ELSE canonical_entity[field]

\* if len(dup.get(field, "")) > len(canonical.get(field, "")): take the duplicate's
Longer(dup_entity, canonical_entity, field) ==
    IF Len(Field(dup_entity, field)) > Len(Field(canonical_entity, field))
    THEN dup_entity[field] ELSE canonical_entity[field]

\* the body of the inner loop of merge_duplicate_entities: which fields are
\* merged depends on the canonical's type
MergeInto(canonical_entity, dup_entity) ==
    IF canonical_entity.type = "character"
    THEN [canonical_entity EXCEPT
            !.persona = Longer(dup_entity, canonical_entity, "persona"),
            !.style_description = Longer(dup_entity, canonical_entity, "style_description"),
            !.style_exemplars = AppendNew(canonical_entity.style_exemplars,
                                          dup_entity.style_exemplars)]
    ELSE [canonical_entity EXCEPT
            !.description = Longer(dup_entity, canonical_entity, "description")]

\* for dup in dups: self.entities[dup] raises KeyError for a name no longer stored
RECURSIVE MergeDups(_, _, _)
MergeDups(ents, canonical, dups) ==
    IF dups = <<>> THEN [entities |-> ents, raised |-> FALSE]
    ELSE IF ~HasEntity(ents, Head(dups)) THEN [entities |-> ents, raised |-> TRUE]
    ELSE LET merged == MergeInto(GetEntity(ents, canonical), GetEntity(ents, Head(dups)))
         IN  MergeDups(DelEntity(SetEntity(ents, canonical, merged), Head(dups)),
                       canonical, Tail(dups))

\* for canonical, dups in duplicates.items(): self.entities[canonical] raises
\* KeyError for a name no longer stored
RECURSIVE MergeGroups(_, _)
MergeGroups(ents, groups) ==
    IF groups = <<>> THEN [entities |-> ents, raised |-> FALSE]
    ELSE IF ~HasEntity(ents, Head(groups).key) THEN [entities |-> ents, raised |-> TRUE]
    ELSE LET r == MergeDups(ents, Head(groups).key, Head(groups).value)
         IN  IF r.raised THEN r ELSE MergeGroups(r.entities, Tail(groups))

\* the relationship loop without its "if source == target: continue"
RECURSIVE UpdateRelationships_keeploops(_, _)
UpdateRelationships_keeploops(rels, d2c) ==
    IF rels = <<>> THEN <<>>
    ELSE LET rel == Head(rels)
         IN  <<[rel EXCEPT !.source = MapName(d2c, rel.source),
                           !.target = MapName(d2c, rel.target)]>>
             \o UpdateRelationships_keeploops(Tail(rels), d2c)

\* the relationship loop of merge_duplicate_entities
RECURSIVE UpdateRelationships(_, _)
UpdateRelationships(rels, d2c) ==
    IF rels = <<>> THEN <<>>
    ELSE LET rel == Head(rels)
             source == MapName(d2c, rel.source)
             target == MapName(d2c, rel.target)
         IN  (IF source = target THEN <<>>
              ELSE <<[rel EXCEPT !.source = source, !.target = target]>>)
             \o UpdateRelationships(Tail(rels), d2c)

\* KnowledgeGraphBuilder.merge_duplicate_entities: a KeyError leaves the store
\* as merged so far and the relationships untouched
merge_duplicate_entities(ents, rels, groups) ==
    LET m == MergeGroups(ents, groups)
    IN  [entities |-> m.entities,
         relationships |-> IF m.raised THEN rels
                           ELSE UpdateRelationships(rels, DuplicateToCanonical(groups, <<>>)),
         raised |-> m.raised]

\* nx.Graph.add_edge: the graph is undirected and simple, an edge that exists
\* gets its attributes overwritten
AddEdge(edges, rel) ==
    LET ends == {rel.source, rel.target}
        edge == [ends |-> ends, description |-> rel.description,
                 attitude |-> rel.attitude, strength |-> rel.strength]
    IN  IF \E i \in 1..Len(edges) : edges[i].ends = ends
        THEN [i \in 1..Len(edges) |-> IF edges[i].ends = ends THEN edge ELSE edges[i]]
        ELSE Append(edges, edge)

RECURSIVE AddEdges(_, _)
AddEdges(edges, rels) ==
    IF rels = <<>> THEN edges ELSE AddEdges(AddEdge(edges, Head(rels)), Tail(rels))

\* KnowledgeGraphBuilder.build_graph
build_graph(g, ents, rels) ==
    [nodes |-> g.nodes \cup Range(EntityNames(ents))
                 \cup {rels[i].source : i \in 1..Len(rels)}
                 \cup {rels[i].target : i \in 1..Len(rels)},
     edges |-> AddEdges(g.edges, rels)]

EmptyGraph == [nodes |-> {}, edges |-> <<>>]

KgOp(op) == [op |-> op, raised |-> FALSE]

\* the names of the stored entities whose text a merge changed
ChangedNames(before, after) ==
    {after[i].name : i \in {j \in 1..Len(after) :
        EntityText(after[j]) # EntityText(GetEntity(before, after[j].name))}}

\* what the vectorizer and cosine_similarity give on the store after a merge:
\* the verdict on two unchanged texts is kept, the verdict on a text the merge
\* rewrote is open
SimilaritiesAfter(sim, before, after) ==
    LET names == Range(EntityNames(after))
        changed == ChangedNames(before, after)
        kept == {p \in Pairs(names) : p \cap changed = {} /\ p \in sim}
        open == {p \in Pairs(names) : p \cap changed # {}}
    IN  {kept \cup chosen : chosen \in SUBSET open}

\* duplicates = builder.find_duplicate_entities()
FindDuplicates ==
    /\ duplicates' = find_duplicate_entities(entities, similar)
    /\ kg' = KgOp("find_duplicate_entities")
    /\ UNCHANGED <<entities, relationships, similar, graph, detVars, auxVars, graphVars,
                   retrieveVars, search, memVars>>

\* builder.merge_duplicate_entities(duplicates), with the groups just found
MergeDuplicates ==
    /\ kg.op = "find_duplicate_entities"
    /\ LET r == merge_duplicate_entities(entities, relationships, duplicates)
       IN  /\ entities' = r.entities
           /\ relationships' = r.relationships
           /\ kg' = [KgOp("merge_duplicate_entities") EXCEPT !.raised = r.raised]
           /\ similar' \in SimilaritiesAfter(similar, entities, r.entities)
    /\ UNCHANGED <<duplicates, graph, detVars, auxVars, graphVars, retrieveVars, search, memVars>>

\* builder.build_graph()
BuildGraph ==
    /\ kg.op # "build_graph"
    /\ graph' = build_graph(graph, entities, relationships)
    /\ kg' = KgOp("build_graph")
    /\ UNCHANGED <<entities, relationships, similar, duplicates, detVars, auxVars, graphVars,
                   retrieveVars, search, memVars>>

\* ---------------------------------------------------------- CommunityDetector
MaxMembers == 4
MaxMinSize == 3

\* the nodes of the detector's graph
DetNodes == {AllNames[i] : i \in 1..MaxMembers}

\* a tie counts as character-focused
classify_community_tie(community, types) ==
    LET character_count ==
            Cardinality({i \in 1..Len(community) : types[community[i]] = "character"})
        non_character_count == Len(community) - character_count
    IN  IF character_count >= non_character_count
        THEN "character-focused" ELSE "event-focused"

\* CommunityDetector.classify_community
classify_community(community, types) ==
    LET character_count ==
            Cardinality({i \in 1..Len(community) : types[community[i]] = "character"})
        non_character_count == Len(community) - character_count
    IN  IF character_count > non_character_count
        THEN "character-focused" ELSE "event-focused"

\* CommunityDetector.generate_community_summary: the text the collaborator
\* generated, or the template with the number of members when generate() raised
\* no try/except around generate(): the failure leaves the method
generate_community_summary_reraise(community_id, community, community_type, raises) ==
    IF raises THEN [raised |-> TRUE, text |-> "", n |-> 0]
    ELSE [raised |-> FALSE, text |-> "generated", n |-> 0]

generate_community_summary(community_id, community, community_type, raises) ==
    IF raises THEN [raised |-> FALSE, text |-> "template", n |-> Len(community)]
    ELSE [raised |-> FALSE, text |-> "generated", n |-> 0]

\* the loop of process_communities from index i on (i counts from 1, the id
\* from 0); self.communities is assigned inside the loop, after each append; an
\* exception leaving generate_community_summary leaves process_communities too
RECURSIVE ProcessFrom(_, _, _, _, _, _)
ProcessFrom(comms, types, min_size, failing, i, acc) ==
    IF i > Len(comms) THEN acc
    ELSE IF Len(comms[i]) < min_size
    THEN ProcessFrom(comms, types, min_size, failing, i + 1, acc)
    ELSE LET community == comms[i]
             community_id == AllIds[i]
             community_type == classify_community(community, types)
             summary == generate_community_summary(community_id, community, community_type,
                                                   (Len(acc.calls) + 1) \in failing)
             community_data == [id |-> community_id, members |-> community,
                                size |-> Len(community), type |-> community_type,
                                summary |-> [text |-> summary.text, n |-> summary.n]]
             processed == Append(acc.processed, community_data)
         IN  IF summary.raised
             THEN [acc EXCEPT !.raised = TRUE,
                              !.classified = Append(acc.classified, community_id),
                              !.calls = Append(acc.calls, community_id)]
             ELSE ProcessFrom(comms, types, min_size, failing, i + 1,
                              [processed |-> processed, stored |-> processed,
                               classified |-> Append(acc.classified, community_id),
                               calls |-> Append(acc.calls, community_id),
                               raised |-> FALSE])

\* CommunityDetector.process_communities on a detector storing `stored`
process_communities(comms, types, min_size, failing, stored) ==
    ProcessFrom(comms, types, min_size, failing, 1,
                [processed |-> <<>>, stored |-> stored, classified |-> <<>>, calls |-> <<>>,
                 raised |-> FALSE])

\* the member lists detect_communities returns: a partition of the nodes, here
\* the node list cut into consecutive blocks
RECURSIVE Blocks(_, _, _)
Blocks(cuts, from, n) ==
    IF from > n THEN <<>>
    ELSE LET to == CHOOSE k \in from..n :
                      /\ (k = n \/ k \in cuts)
                      /\ \A j \in from..(k - 1) : j \notin cuts
         IN  <<[i \in 1..(to - from + 1) |-> AllNames[from + i - 1]]>>
             \o Blocks(cuts, to + 1, n)

Partitions == {Blocks(cuts, 1, MaxMembers) : cuts \in SUBSET (1..(MaxMembers - 1))}

\* which generation calls of one process_communities raise: none, the first, all
Failings == {{}, {1}, 1..MaxMembers}

DetOp(op) == [op |-> op, communities |-> <<>>, min_size |-> 0, result |-> <<>>,
              classified |-> <<>>, calls |-> <<>>, type |-> "", failing |-> {},
              raised |-> FALSE]

\* classify_community(community)
ClassifyCommunity ==
    /\ det.op = "none"
    /\ \E from \in 1..MaxMembers, to \in 0..MaxMembers :
         LET community == [i \in 1..(to - from + 1) |-> AllNames[from + i - 1]]
         IN  det' = [DetOp("classify_community") EXCEPT
                        !.communities = <<community>>,
                        !.type = classify_community(community, det_node_type)]
    /\ UNCHANGED <<det_node_type, det_communities, kgVars, auxVars, graphVars, retrieveVars,
                   search, memVars>>

\* process_communities(communities, min_size)
ProcessCommunities ==
    /\ det.op = "none"
    /\ \E comms \in Partitions, min_size \in 0..MaxMinSize, failing \in Failings :
         LET r == process_communities(comms, det_node_type, min_size, failing,
                                      det_communities)
         IN  /\ det_communities' = r.stored
             /\ det' = [DetOp("process_communities") EXCEPT
                           !.communities = comms, !.min_size = min_size,
                           !.result = r.processed, !.classified = r.classified,
                           !.calls = r.calls, !.failing = failing,
                           !.raised = r.raised]
    /\ UNCHANGED <<det_node_type, kgVars, auxVars, graphVars, retrieveVars, search, memVars>>

\* the caller takes the result of the call
DetReturn ==
    /\ det.op # "none"
    /\ det' = DetOp("none")
    /\ UNCHANGED <<det_node_type, det_communities, kgVars, auxVars, graphVars, retrieveVars,
                   search, memVars>>

\* ------------------------------------------------ graph-lookup agent: search_graph
MaxLookupNodes == 2

\* names are sequences of characters, so that lower() and `in` are computed
LookupNames == << <<"A", "l">>, <<"B", "o">>, <<"C", "y">>, <<"D", "i">> >>

\* node attributes of the loaded graph; a missing attribute is Absent
LookupData ==
    << [persona |-> "hero", style_description |-> Absent, style_exemplars |-> <<>>,
        description |-> Absent],
       [persona |-> Absent, style_description |-> "terse", style_exemplars |-> <<"hi", "yo">>,
        description |-> "a castle"],
       [persona |-> Absent, style_description |-> Absent, style_exemplars |-> <<>>,
        description |-> Absent],
       [persona |-> "sage", style_description |-> Absent, style_exemplars |-> <<"hm">>,
        description |-> Absent] >>

LookupEdge(u, v, description, attitude) ==
    [u |-> u, v |-> v, description |-> description, attitude |-> attitude]

\* the edge lists of the loaded MultiDiGraph: none, a self-loop, one edge out
\* of the second node, two parallel edges out of the first node
LookupEdgeLists ==
    {<<>>,
     <<LookupEdge(1, 1, "admires", "proud")>>,
     <<LookupEdge(2, 1, "guards", Absent)>>,
     <<LookupEdge(1, 2, "lives in", "fond"), LookupEdge(1, 2, "owns", Absent)>>}

\* str.lower() on the letters the names and targets use
LowerChar(c) ==
    CASE c = "A" -> "a" [] c = "B" -> "b" [] c = "C" -> "c" [] c = "D" -> "d"
      [] c = "L" -> "l" [] c = "X" -> "x" [] c = "Z" -> "z" [] OTHER -> c

lower(str) == [i \in 1..Len(str) |-> LowerChar(str[i])]

\* a in b for strings: a is a substring of b (the empty string is in every string)
In(a, b) == \E i \in 0..(Len(b) - Len(a)) : SubSeq(b, i + 1, i + Len(a)) = a

\* sub_query.get("target_entity") / .get("type"): None when the key is missing
LookupSubQuery(has_target, target_entity, type) ==
    [has_target |-> has_target, target_entity |-> target_entity, type |-> type]

LookupTargets ==
    {LookupSubQuery(FALSE, <<>>, t) : t \in {"character_info", "relation_lookup"}}
    \cup {LookupSubQuery(TRUE, target, t) :
             target \in {<<"a">>, <<"B", "O", "X">>, <<"Z">>, <<>>},
             t \in {"character_info", "relation_lookup", "event_lookup", "other", Absent}}

\* node_data.get(key, 'N/A')
GetOrNA(node_data, key) == IF node_data[key] = Absent THEN "N/A" ELSE node_data[key]

\* the for loop over self.graph.nodes(): the first node whose lowered name
\* contains the lowered target or is contained in it; 0 when none matches.
\* target.lower() on None raises AttributeError as soon as one node is visited
MatchedNode(g, target) ==
    IF \E i \in 1..Len(g.nodes) :
          In(lower(target), lower(g.nodes[i].name)) \/ In(lower(g.nodes[i].name), lower(target))
    THEN CHOOSE i \in 1..Len(g.nodes) :
            /\ In(lower(target), lower(g.nodes[i].name))
               \/ In(lower(g.nodes[i].name), lower(target))
            /\ \A j \in 1..(i - 1) :
                  ~(In(lower(target), lower(g.nodes[j].name))
                    \/ In(lower(g.nodes[j].name), lower(target)))
    ELSE 0

\* self.graph.out_edges(node, data=True), in insertion order
OutEdges(g, i) == SelectSeq(g.edges, LAMBDA e : e.u = i)

\* one entry of results; "\n".join(results) is the sequence of the entries, and
\* the empty string is the empty sequence (every entry starts with a literal)
ResultLine(kind, node, other, text, attitude, exemplars) ==
    [kind |-> kind, node |-> node, other |-> other, text |-> text,
     attitude |-> attitude, exemplars |-> exemplars]

LookupOp(op) == [op |-> op, raised |-> FALSE, marker |-> FALSE, lines |-> <<>>,
                 sub_query |-> LookupSubQuery(FALSE, <<>>, ""), matched |-> 0]

\* RetrievalAgent.search_graph(sub_query)
search_graph(g, sub_query) ==
    IF ~sub_query.has_target /\ g.nodes # <<>>
    THEN [raised |-> TRUE, marker |-> FALSE, lines |-> <<>>, matched |-> 0]
    ELSE LET m == IF sub_query.has_target THEN MatchedNode(g, sub_query.target_entity)
                  ELSE 0
             node_data == g.nodes[m].data
             edges == OutEdges(g, m)
             results ==
                 CASE sub_query.type = "character_info" ->
                        <<ResultLine("Character", g.nodes[m].name, <<>>,
                                     GetOrNA(node_data, "persona"),
                                     GetOrNA(node_data, "style_description"),
                                     node_data.style_exemplars)>>
                   [] sub_query.type = "relation_lookup" ->
                        [k \in 1..Len(edges) |->
                           ResultLine("Relation", g.nodes[edges[k].u].name,
                                      g.nodes[edges[k].v].name, edges[k].description,
                                      GetOrNA(edges[k], "attitude"), <<>>)]
                   [] sub_query.type = "event_lookup" ->
                        <<ResultLine("Entity", g.nodes[m].name, <<>>,
                                     GetOrNA(node_data, "description"), "", <<>>)>>
                        \o [k \in 1..Len(edges) |->
                              ResultLine("Related to", <<>>, g.nodes[edges[k].v].name,
                                         edges[k].description, "", <<>>)]
                   [] OTHER -> <<>>
         IN  IF m = 0
             THEN [raised |-> FALSE, marker |-> TRUE, lines |-> <<>>, matched |-> 0]
             ELSE [raised |-> FALSE, marker |-> FALSE, lines |-> results, matched |-> m]

\* search_graph(sub_query)
SearchGraph ==
    /\ lookup.op = "none"
    /\ \E sub_query \in LookupTargets :
         LET r == search_graph(lg, sub_query)
         IN  lookup' = [LookupOp("search_graph") EXCEPT
                           !.raised = r.raised, !.marker = r.marker, !.lines = r.lines,
                           !.sub_query = sub_query, !.matched = r.matched]
    /\ UNCHANGED <<lg, genVars, sysVars, buildVars, graphVars, retrieveVars, search,
                   memVars>>

\* the caller takes the result of the call
LookupReturn ==
    /\ lookup.op # "none"
    /\ lookup' = LookupOp("none")
    /\ UNCHANGED <<lg, genVars, sysVars, buildVars, graphVars, retrieveVars, search,
                   memVars>>

\* ----------------------------------------------------------- GeminiClient.generate
MaxRetry == 3

\* what one self.model.generate_content(...) / response.text gives: a text, or
\* an exception from the call or from reading .text of a blocked response
AttemptOutcomes == {"text one", "text two", "call raised", "text raised"}

AttemptFailed(outcome) == outcome \in {"call raised", "text raised"}

\* generation_config: max_output_tokens is set only for a truthy max_tokens
GenerationConfig(temperature, max_tokens) ==
    [temperature |-> temperature,
     max_output_tokens |-> IF max_tokens # 0 THEN max_tokens ELSE 0]

\* the temperature (in tenths) and max_tokens (0 is None) the callers pass
GenerateArgs == {<<7, 0>>, <<5, 500>>, <<3, 100>>}

GenIdle == [pc |-> "idle", retry |-> 0, attempt |-> 0, config |-> GenerationConfig(0, 0),
            outcomes |-> <<>>, slept |-> <<>>, result |-> ""]

\* generate(prompt, temperature, max_tokens, retry): up to the for loop
GenerateCall ==
    /\ gen.pc = "idle"
    /\ \E retry \in 0..MaxRetry, args \in GenerateArgs :
         gen' = [GenIdle EXCEPT !.pc = "loop", !.retry = retry,
                                !.config = GenerationConfig(args[1], args[2])]
    /\ UNCHANGED <<lookupVars, sysVars, buildVars, graphVars, retrieveVars, search,
                   memVars>>

\* one iteration of `for attempt in range(retry)`: the try block and its handler
GenerateAttempt ==
    /\ gen.pc = "loop"
    /\ gen.attempt < gen.retry
    /\ \E outcome \in AttemptOutcomes :
         gen' = IF ~AttemptFailed(outcome)
                THEN [gen EXCEPT !.pc = "returned", !.result = outcome,
                                 !.outcomes = Append(@, outcome)]
                ELSE IF gen.attempt < gen.retry - 1
                THEN [gen EXCEPT !.attempt = @ + 1,
                                 !.slept = Append(@, 2 ^ gen.attempt),
                                 !.outcomes = Append(@, outcome)]
                ELSE [gen EXCEPT !.pc = "raised", !.outcomes = Append(@, outcome)]
    /\ UNCHANGED <<lookupVars, sysVars, buildVars, graphVars, retrieveVars, search,
                   memVars>>

\* range(retry) is used up without a return or a raise: return ""
GenerateFallThrough ==
    /\ gen.pc = "loop"
    /\ gen.attempt >= gen.retry
    /\ gen' = [gen EXCEPT !.pc = "returned", !.result = ""]
    /\ UNCHANGED <<lookupVars, sysVars, buildVars, graphVars, retrieveVars, search,
                   memVars>>

\* the caller takes the text or the exception
GenerateDone ==
    /\ gen.pc \in {"returned", "raised"}
    /\ gen' = GenIdle
    /\ UNCHANGED <<lookupVars, sysVars, buildVars, graphVars, retrieveVars, search,
                   memVars>>

\* ------------------------------------------------------------ RoleRAGSystem.query
MAX_ITERATIONS == 5
QueryMaxCacheSize == 20

\* what the collaborator answers to the callback-detection prompt, after
\* generate_json: it raised, no callback, a callback to turn 0 of the window
CallbackReplies ==
    {[raises |-> TRUE, needs_callback |-> FALSE, related_turn_indices |-> <<>>],
     [raises |-> FALSE, needs_callback |-> FALSE, related_turn_indices |-> <<>>],
     [raises |-> FALSE, needs_callback |-> TRUE, related_turn_indices |-> <<0>>]}

\* MemoryManager.detect_callback
detect_callback(ts, reply) ==
    IF ts = <<>> \/ reply.raises
    THEN [needs_callback |-> FALSE, related_indices |-> <<>>]
    ELSE [needs_callback |-> reply.needs_callback,
          related_indices |-> reply.related_turn_indices]

\* MemoryManager.get_callback_context: one part per index inside the window of
\* recent turns (indices count from 0); "" is the empty sequence
get_callback_context(ts, related_indices) ==
    LET recent_turns == get_recent_turns(ts, HistoryLimit)
        valid == SelectSeq(related_indices, LAMBDA idx : 0 <= idx /\ idx < Len(recent_turns))
    IN  [i \in 1..Len(valid) |-> [query |-> recent_turns[valid[i] + 1].query,
                                  response |-> recent_turns[valid[i] + 1].response]]

\* enhanced_query = f"{callback_context}\n\n当前问题：{user_query}"
EnhancedQuery(callback_context, user_query) ==
    IF callback_context = <<>> THEN "current question: Q1"
    ELSE "previous turns, current question: Q1"

\* the decomposition replies of query's own decompose_query call: generate()
\* raised, {} (no sub-queries), one sub-query, two sub-queries
QueryDecomposeReplies ==
    {Reply(TRUE, "none", FALSE, FALSE, EmptyObj),
     Reply(FALSE, "none", FALSE, TRUE, EmptyObj),
     Reply(FALSE, "none", FALSE, TRUE,
           [EmptyObj EXCEPT !.has_subqueries = TRUE,
                            !.subq_items = <<SqData("q1", "event", FALSE, 1)>>]),
     Reply(FALSE, "none", FALSE, TRUE,
           [EmptyObj EXCEPT !.has_subqueries = TRUE,
                            !.subq_items = <<SqData("q1", "event", FALSE, 1),
                                             SqData("q2", "event", FALSE, 1)>>])}

\* the cache-check replies: judged sufficient, judged not sufficient
QueryCheckReplies ==
    {Reply(FALSE, "none", FALSE, TRUE, [EmptyObj EXCEPT !.has_suff = TRUE, !.suff = sf]) :
        sf \in BOOLEAN}

SysIdle == [pc |-> "idle", user_query |-> "", enhanced_query |-> "",
            needs_callback |-> FALSE, subqueries |-> <<>>, checked |-> <<>>,
            retrieved_info |-> <<>>, queries_to_retrieve |-> <<>>,
            decompose_calls |-> 0, retrieve_calls |-> 0, new_retrieved |-> <<>>,
            initial |-> 0]

\* query(user_query), Step 1: detect_callback and the enhanced query
Query ==
    /\ sys.pc = "idle"
    /\ pc = "idle"
    /\ \E user_query \in Queries, reply \in CallbackReplies :
         LET cb == detect_callback(turns, reply)
             callback_context == get_callback_context(turns, cb.related_indices)
         IN  sys' = [SysIdle EXCEPT
                        !.pc = "decompose", !.user_query = user_query,
                        !.needs_callback = cb.needs_callback,
                        !.enhanced_query = IF cb.needs_callback
                                           THEN EnhancedQuery(callback_context, user_query)
                                           ELSE user_query]
    /\ UNCHANGED <<lookupVars, genVars, buildVars, graphVars, retrieveVars, search,
                   memVars>>

\* Step 2: subqueries = self.retrieval_agent.decompose_query(enhanced_query)
QueryDecompose ==
    /\ sys.pc = "decompose"
    /\ \E reply \in QueryDecomposeReplies :
         sys' = [sys EXCEPT !.pc = "check_cache",
                            !.subqueries = decompose_query(sys.enhanced_query, reply).value,
                            !.decompose_calls = @ + 1]
    /\ UNCHANGED <<lookupVars, genVars, buildVars, graphVars, retrieveVars, search,
                   memVars>>

\* one pass of "for sq in subqueries": check_cache(sq.text)
QueryCheckCache ==
    /\ sys.pc = "check_cache"
    /\ Len(sys.checked) < Len(sys.subqueries)
    /\ \E reply \in QueryCheckReplies :
         LET sq == sys.subqueries[Len(sys.checked) + 1]
             r == check_cache(turns, cache, sq.text, reply)
         IN  sys' = [sys EXCEPT
                        !.checked = Append(@, r.is_cached),
                        !.retrieved_info = IF r.is_cached THEN @ \o r.info ELSE @,
                        !.queries_to_retrieve = IF r.is_cached THEN @ ELSE Append(@, sq)]
    /\ UNCHANGED <<lookupVars, genVars, buildVars, graphVars, retrieveVars, search,
                   memVars>>

\* Step 3, "if queries_to_retrieve:" the call
\* self.retrieval_agent.retrieve(enhanced_query, max_iterations=config.MAX_ITERATIONS),
\* with the iteration budget capped at MaxIter
QueryRetrieve ==
    /\ sys.pc = "check_cache"
    /\ Len(sys.checked) = Len(sys.subqueries)
    /\ sys.queries_to_retrieve # <<>>
    /\ pc = "idle"
    /\ sys' = [sys EXCEPT !.pc = "retrieve", !.retrieve_calls = @ + 1]
    /\ query' = sys.enhanced_query
    /\ max_iterations' = Min(MAX_ITERATIONS, MaxIter)
    /\ pc' = "decompose"
    /\ subqueries' = <<>>
    /\ all_retrieved' = <<>>
    /\ iteration' = 0
    /\ is_sufficient' = <<>>
    /\ new_subquery' = <<>>
    /\ reflections' = <<>>
    /\ retrieveCalls' = 0
    /\ decomp_reply' = ""
    /\ reflect_reply' = ""
    /\ raised' = FALSE
    /\ UNCHANGED <<lookupVars, genVars, buildVars, graphVars, search, memVars>>

\* "else:" every sub-query was answered from the cache
QuerySkipRetrieve ==
    /\ sys.pc = "check_cache"
    /\ Len(sys.checked) = Len(sys.subqueries)
    /\ sys.queries_to_retrieve = <<>>
    /\ sys' = [sys EXCEPT !.pc = "generate"]
    /\ UNCHANGED <<lookupVars, genVars, buildVars, graphVars, retrieveVars, search,
                   memVars>>

\* retrieve returned: retrieved_info.extend(new_retrieved)
QueryRetrieved ==
    /\ sys.pc = "retrieve"
    /\ pc = "done"
    /\ sys' = [sys EXCEPT !.pc = "generate",
                          !.retrieved_info = @ \o all_retrieved,
                          !.new_retrieved = all_retrieved,
                          !.initial = Len(subqueries),
                          !.decompose_calls = @ + (IF decomp_reply # "" THEN 1 ELSE 0)]
    /\ pc' = "idle"
    /\ query' = ""
    /\ max_iterations' = 0
    /\ subqueries' = <<>>
    /\ all_retrieved' = <<>>
    /\ iteration' = 0
    /\ is_sufficient' = <<>>
    /\ new_subquery' = <<>>
    /\ reflections' = <<>>
    /\ retrieveCalls' = 0
    /\ decomp_reply' = ""
    /\ reflect_reply' = ""
    /\ raised' = FALSE
    /\ UNCHANGED <<lookupVars, genVars, buildVars, graphVars, search, memVars>>

\* Steps 4 and 5: generate_response and generate_summary (either may raise and
\* ends the call), then add_turn and clear_old_cache(max_cache_size=20); no
\* memory file is configured, so nothing is saved
QueryFinish ==
    /\ sys.pc = "generate"
    /\ \E generated \in BOOLEAN :
         IF generated
         THEN /\ turns' = Append(turns, ConversationTurn(sys.user_query, "response",
                                                         "summary", sys.retrieved_info))
              /\ cache' = clear_old_cache(UpdateCache(cache, sys.retrieved_info),
                                          QueryMaxCacheSize)
              /\ sys' = [sys EXCEPT !.pc = "done"]
         ELSE /\ sys' = [sys EXCEPT !.pc = "failed"]
              /\ UNCHANGED <<turns, cache>>
    /\ UNCHANGED <<memop, memory_file, lookupVars, genVars, buildVars, graphVars,
                   retrieveVars, search>>

\* --------------------------------------------------------------- initial states
IdleRetrieve ==
    /\ pc = "idle"
    /\ query = ""
    /\ max_iterations = 0
    /\ subqueries = <<>>
    /\ all_retrieved = <<>>
    /\ iteration = 0
    /\ is_sufficient = <<>>
    /\ new_subquery = <<>>
    /\ reflections = <<>>
    /\ retrieveCalls = 0
    /\ decomp_reply = ""
    /\ reflect_reply = ""
    /\ raised = FALSE

EmptyMemory ==
    /\ turns = <<>>
    /\ cache = <<>>
    /\ memop = MemOp("none")
    /\ memory_file = NoFile

\* the graph of the scenario: Alice (character) and Castle (non-character),
\* one community of each classification
ScenarioGraph ==
    /\ entity_names = <<"Alice", "Castle">>
    /\ node_type = <<"character", "non-character">>
    /\ communities = <<[id |-> "community_0", type |-> "character-focused"],
                       [id |-> "community_1", type |-> "event-focused"]>>

\* any graph with at least one node and any list with at least one community
\* (the constructor's TfidfVectorizer.fit_transform rejects empty input)
AnyGraph ==
    \/ /\ \E n \in 1..MaxEntities :
             /\ entity_names = SubSeq(AllNames, 1, n)
             /\ node_type \in [1..n -> NodeTypes]
       /\ communities = <<[id |-> "community_0", type |-> "character-focused"],
                          [id |-> "community_1", type |-> "event-focused"]>>
    \/ /\ entity_names = <<"Alice", "Castle">>
       /\ node_type = <<"character", "non-character">>
       /\ \E n \in 1..MaxCommunities :
             \E types \in [1..n -> CommunityTypes] :
                communities = [i \in 1..n |-> [id |-> AllIds[i], type |-> types[i]]]

\* a builder before load_entities / load_relationships
EmptyBuilder ==
    /\ entities = <<>>
    /\ relationships = <<>>
    /\ similar = {}
    /\ duplicates = <<>>
    /\ graph = EmptyGraph
    /\ kg = KgOp("none")

\* a detector on the graph of the scenario before any call
ScenarioDetector ==
    /\ det_node_type = [name \in DetNodes |->
                           IF name \in {"Alice", "Bob"} THEN "character" ELSE "non-character"]
    /\ det_communities = <<>>
    /\ det = DetOp("none")

\* no graph file was loaded and no lookup is running
NoLookup ==
    /\ lg = [nodes |-> <<>>, edges |-> <<>>]
    /\ lookup = LookupOp("none")

IdleAux == NoLookup /\ gen = GenIdle /\ sys = SysIdle

IdleBuild == EmptyBuilder /\ ScenarioDetector /\ IdleAux

InitRetrieve == ScenarioGraph /\ IdleRetrieve /\ search = NoSearch /\ EmptyMemory /\ IdleBuild

NextRetrieve ==
    \/ Retrieve
    \/ Decompose
    \/ RetrieveInitial
    \/ EnterReflection
    \/ Reflect
    \/ RetrieveRound
    \/ Exhausted
    \/ Return

SpecRetrieve == InitRetrieve /\ [][NextRetrieve]_vars

\* a step of a running retrieve call
RetrieveStep ==
    \/ Decompose
    \/ RetrieveInitial
    \/ EnterReflection
    \/ Reflect
    \/ RetrieveRound
    \/ Exhausted

\* retrieve is synchronous: once called it keeps running, no step of it waits
FairRetrieve == SpecRetrieve /\ WF_vars(RetrieveStep)

InitSearch == AnyGraph /\ IdleRetrieve /\ search = NoSearch /\ EmptyMemory /\ IdleBuild

NextSearch ==
    \/ SearchEntities
    \/ SearchCommunities
    \/ SearchReturn

SpecSearch == InitSearch /\ [][NextSearch]_vars

InitMemory == ScenarioGraph /\ IdleRetrieve /\ search = NoSearch /\ EmptyMemory /\ IdleBuild

NextMemory ==
    \/ CheckCache
    \/ AddTurn
    \/ ClearOldCache
    \/ SaveMemory
    \/ LoadMemory
    \/ NewMemoryManager
    \/ MemReturn

SpecMemory == InitMemory /\ [][NextMemory]_vars

\* a builder after load_entities and load_relationships: the store of the
\* scenario under any symmetric similarity relation with any of the relationship
\* lists, or a store of any entities that are all similar to each other
LoadedBuilder ==
    /\ \/ \E n \in 0..MaxKgEntities :
             /\ entities = [i \in 1..n |-> Named(KgNames[i], ScenarioProfiles[i])]
             /\ similar \in SUBSET Pairs({KgNames[i] : i \in 1..n})
             /\ relationships \in RelationshipLists
       \/ \E n \in 2..MaxGroup :
             /\ \E profiles \in [1..n -> EntityProfiles] :
                   entities = [i \in 1..n |-> Named(KgNames[i], profiles[i])]
             /\ similar = Pairs({KgNames[i] : i \in 1..n})
             /\ relationships = <<>>
    /\ duplicates = <<>>
    /\ graph = EmptyGraph
    /\ kg = KgOp("none")

InitBuild ==
    /\ ScenarioGraph /\ IdleRetrieve /\ search = NoSearch /\ EmptyMemory
    /\ LoadedBuilder /\ ScenarioDetector /\ IdleAux

NextBuild ==
    \/ FindDuplicates
    \/ MergeDuplicates
    \/ BuildGraph

SpecBuild == InitBuild /\ [][NextBuild]_vars

\* a detector on a graph of MaxMembers nodes of any types, before any call
InitDetect ==
    /\ ScenarioGraph /\ IdleRetrieve /\ search = NoSearch /\ EmptyMemory /\ EmptyBuilder
    /\ IdleAux
    /\ det_node_type \in [DetNodes -> NodeTypes]
    /\ det_communities = <<>>
    /\ det = DetOp("none")

NextDetect ==
    \/ ClassifyCommunity
    \/ ProcessCommunities
    \/ DetReturn

SpecDetect == InitDetect /\ [][NextDetect]_vars

\* ================================================================= properties
\* one call of query on a system without a memory file: in a new session, or
\* after an earlier query of the session stored one turn with one bundle
EarlierBundle ==
    CHOOSE b \in BundlesFor(SubQuery("q1", "event", 1)) : b.entities # <<>>

InitQuery ==
    /\ ScenarioGraph /\ IdleRetrieve /\ search = NoSearch /\ IdleBuild
    /\ memop = MemOp("none")
    /\ memory_file = NoFile
    /\ \/ turns = <<>> /\ cache = <<>>
       \/ /\ turns = <<ConversationTurn("Q1", "response", "summary", <<EarlierBundle>>)>>
          /\ cache = clear_old_cache(UpdateCache(<<>>, <<EarlierBundle>>), QueryMaxCacheSize)

NextQuery ==
    \/ Query
    \/ QueryDecompose
    \/ QueryCheckCache
    \/ QueryRetrieve
    \/ QuerySkipRetrieve
    \/ Decompose
    \/ RetrieveInitial
    \/ EnterReflection
    \/ Reflect
    \/ RetrieveRound
    \/ Exhausted
    \/ QueryRetrieved
    \/ QueryFinish

SpecQuery == InitQuery /\ [][NextQuery]_vars

\* the cache and the turns alone, from an empty memory: no file is read
NextCache ==
    \/ CheckCache
    \/ AddTurn
    \/ ClearOldCache
    \/ MemReturn

SpecCache == InitMemory /\ [][NextCache]_vars

\* the conversation history alone: turns are added and the recent ones read
NextHistory ==
    \/ AddTurn
    \/ GetRecentTurns
    \/ MemReturn

SpecHistory == InitMemory /\ [][NextHistory]_vars

\* the graph-lookup agent on a loaded graph: the first n nodes, and an edge list
\* whose endpoints are among them (_load_graph gives the empty graph on failure)
InitLookup ==
    /\ ScenarioGraph /\ IdleRetrieve /\ search = NoSearch /\ EmptyMemory
    /\ EmptyBuilder /\ ScenarioDetector
    /\ \E n \in 0..MaxLookupNodes, edges \in LookupEdgeLists :
         /\ \A k \in 1..Len(edges) : edges[k].u <= n /\ edges[k].v <= n
         /\ lg = [nodes |-> [i \in 1..n |-> [name |-> LookupNames[i],
                                              data |-> LookupData[i]]],
                  edges |-> edges]
    /\ lookup = LookupOp("none")
    /\ gen = GenIdle
    /\ sys = SysIdle

NextLookup ==
    \/ SearchGraph
    \/ LookupReturn

SpecLookup == InitLookup /\ [][NextLookup]_vars

InitGenerate ==
    /\ ScenarioGraph /\ IdleRetrieve /\ search = NoSearch /\ EmptyMemory /\ IdleBuild

NextGenerate ==
    \/ GenerateCall
    \/ GenerateAttempt
    \/ GenerateFallThrough
    \/ GenerateDone

SpecGenerate == InitGenerate /\ [][NextGenerate]_vars

\* --------------------------------------------------------------------------
\* C1: retrieve(query, max_iterations) terminates whatever the generation
\* collaborator answers, and calls reflect_and_iterate at most max_iterations
\* times, also when every reflection answers "insufficient" with a new sub-query.
C1_RetrieveTerminates ==
    /\ [](Len(reflections) <= max_iterations)
    /\ (pc = "decompose") ~> (pc = "done")

\* a retrieve that spent its whole budget on insufficient rounds and returned
C1_Witness ==
    /\ pc = "done"
    /\ max_iterations >= 2
    /\ Len(reflections) = max_iterations
    /\ \A i \in 1..Len(reflections) : ~reflections[i].is_sufficient

\* --------------------------------------------------------------------------
\* C2: reflect_and_iterate is fail-open: when the generation call raises, the
\* reply is unparsable or empty, or the new sub-query cannot be constructed, it
\* returns (True, None) and raises nothing into retrieve.
ReflectFailures == {"raised", "unparsable", "not an object", "no verdict",
                    "insufficient, no sub-query", "insufficient, unusable sub-query"}

C2_ReflectFailOpen ==
    (reflections # <<>> /\ reflect_reply \in ReflectFailures)
        => /\ ~raised
           /\ pc # "failed"
           /\ reflections[Len(reflections)] = [is_sufficient |-> TRUE, new_subquery |-> <<>>]
           /\ is_sufficient = <<TRUE>>
           /\ new_subquery = <<>>

\* the generation call of a reflection raised and retrieve went on to return
C2_Witness ==
    /\ pc = "done"
    /\ reflect_reply = "raised"
    /\ is_sufficient = <<TRUE>>

\* --------------------------------------------------------------------------
\* C3: decompose_query degrades to exactly one sub-query (the whole query,
\* kind character, priority 1) on every generation failure and on every parsing
\* failure (unparsable reply, reply without a sub-query list, all listed
\* sub-queries malformed); it never returns an empty list and never raises.
DecomposeFailures == {"raised", "unparsable", "not an object", "no list", "not a list",
                      "all malformed"}

C3_DecomposeDegrades ==
    (pc \notin {"idle", "decompose"} /\ decomp_reply \in DecomposeFailures)
        => /\ ~raised
           /\ subqueries = <<SubQuery(query, "character", 1)>>

\* --------------------------------------------------------------------------
\* C4: retrieve returns one bundle per initial sub-query in ascending priority
\* order, then exactly one bundle per reflection round that answered
\* "insufficient", in round order; its length is n_initial + insufficient rounds
\* <= n_initial + max_iterations, and nothing is retrieved or reflected upon
\* after a "sufficient" verdict.
InsufficientRounds == SelectSeq(reflections, LAMBDA r : ~r.is_sufficient)

C4_ReturnedBundles ==
    LET n == Len(subqueries)
        rounds == InsufficientRounds
    IN  /\ \A i \in 1..Len(reflections) :
              reflections[i].is_sufficient => (i = Len(reflections) /\ pc = "done")
        /\ pc = "done" =>
              /\ Len(all_retrieved) = n + Len(rounds)
              /\ Len(rounds) <= max_iterations
              /\ retrieveCalls = Len(all_retrieved)
              /\ \A i \in 1..n :
                    /\ all_retrieved[i].subquery = subqueries[i].text
                    /\ all_retrieved[i].type = subqueries[i].type
              /\ \A i \in 1..(n - 1) : subqueries[i].priority <= subqueries[i + 1].priority
              /\ \A j \in 1..Len(rounds) :
                    /\ rounds[j].new_subquery # <<>>
                    /\ all_retrieved[n + j].subquery = rounds[j].new_subquery[1].text
                    /\ all_retrieved[n + j].type = rounds[j].new_subquery[1].type

\* two initial sub-queries, an insufficient round, then a sufficient verdict
C4_Witness ==
    /\ pc = "done"
    /\ Len(subqueries) = 2
    /\ Len(reflections) = 2
    /\ ~reflections[1].is_sufficient
    /\ reflections[2].is_sufficient
    /\ Len(all_retrieved) = 3

\* --------------------------------------------------------------------------
\* the node type a query type asks for
Requested(query_type, type) ==
    \/ query_type = "character" /\ type = "character"
    \/ query_type = "event" /\ type # "character"

\* C5 as claimed: search_entities returns the first top_k entities of the
\* requested kind in the ranking of ALL entities, so with m entities of that
\* kind in the graph the result has min(m, top_k) names.
C5_AllEntitiesRanked ==
    search.fn = "search_entities" =>
        Len(search.entity_results) =
            Min(Cardinality({i \in 1..Len(entity_names) :
                                Requested(search.query_type, node_type[i])}),
                search.top_k)

\* C5 amended: search_entities returns the first top_k entities of the requested
\* kind among the 2*top_k highest-ranked entities only; the result has
\* min(m', top_k) names, m' being the number of entities of the requested kind
\* in that pool.
C5_PoolRanked ==
    search.fn = "search_entities" =>
        LET n == Len(entity_names)
            pool == search.top_indices
            sims == search.similarities
            hits == SelectSeq(pool, LAMBDA i : Requested(search.query_type, node_type[i]))
        IN  /\ Len(pool) = Min(2 * search.top_k, n)
            /\ \A a, b \in 1..Len(pool) : a < b => pool[a] # pool[b] /\ sims[pool[a]] >= sims[pool[b]]
            /\ \A i \in 1..n : i \notin Range(pool) => \A a \in 1..Len(pool) : sims[pool[a]] >= sims[i]
            /\ search.entity_results =
                  [k \in 1..Min(search.top_k, Len(hits)) |-> entity_names[hits[k]]]

\* the kind filter starves the result: an entity of the requested kind exists
\* below the pool and fewer than top_k names are returned
C5_Witness ==
    /\ search.fn = "search_entities"
    /\ search.top_k >= 1
    /\ Len(search.entity_results) < search.top_k
    /\ \E i \in 1..Len(entity_names) :
          /\ Requested(search.query_type, node_type[i])
          /\ entity_names[i] \notin Range(search.entity_results)

\* --------------------------------------------------------------------------
\* C6: search_entities never returns an entity of the wrong kind and never more
\* than top_k names; on the graph {Alice: character, Castle: non-character} a
\* character query returns [Alice], never Castle.
TypeOfName(name) == node_type[CHOOSE i \in 1..Len(entity_names) : entity_names[i] = name]

C6_KindAndCount ==
    search.fn = "search_entities" =>
        LET res == search.entity_results
        IN  /\ Len(res) <= search.top_k
            /\ search.query_type = "character" =>
                  \A k \in 1..Len(res) : TypeOfName(res[k]) = "character"
            /\ search.query_type = "event" =>
                  \A k \in 1..Len(res) : TypeOfName(res[k]) # "character"
            /\ (/\ entity_names = <<"Alice", "Castle">>
                /\ node_type = <<"character", "non-character">>
                /\ search.query_type = "character"
                /\ search.top_k >= 1) => res = <<"Alice">>

\* Castle is ranked above Alice and a character query still returns only Alice
C6_Witness ==
    /\ search.fn = "search_entities"
    /\ entity_names = <<"Alice", "Castle">>
    /\ node_type = <<"character", "non-character">>
    /\ search.query_type = "character"
    /\ search.top_indices = <<2, 1>>
    /\ search.entity_results = <<"Alice">>

\* --------------------------------------------------------------------------
\* the indices of the returned candidates, and the candidates the filter accepts
ResultIndices ==
    IF search.fn = "search_entities"
    THEN [k \in 1..Len(search.entity_results) |->
            CHOOSE i \in 1..Len(entity_names) : entity_names[i] = search.entity_results[k]]
    ELSE [k \in 1..Len(search.community_results) |->
            CHOOSE i \in 1..Len(communities) : communities[i] = search.community_results[k]]

Accepted(i) ==
    IF search.fn = "search_entities"
    THEN Requested(search.query_type, node_type[i])
    ELSE \/ search.query_type = "character" /\ communities[i].type = "character-focused"
         \/ search.query_type = "event" /\ communities[i].type = "event-focused"
         \/ search.query_type \notin {"character", "event"}

\* C7 as claimed: candidates of equal similarity are ranked by original index,
\* first-seen first: of two candidates i < j with the same score and kind, i is
\* returned before j and is never cut off while j is kept.
C7_TiesFirstSeen ==
    search.fn \in {"search_entities", "search_communities"} =>
        LET res == ResultIndices
            sims == search.similarities
        IN  /\ \A a, b \in 1..Len(res) :
                  (a < b /\ sims[res[a]] = sims[res[b]]) => res[a] < res[b]
            /\ \A i, j \in 1..Len(sims) :
                  (i < j /\ sims[i] = sims[j] /\ Accepted(i) /\ Accepted(j)
                   /\ j \in Range(res)) => i \in Range(res)

\* C7 amended: candidates are ranked by descending similarity only: of two
\* candidates of the requested kind, the one with the strictly higher score is
\* returned before the other and is never cut off while the other is kept; no
\* order among equal scores is guaranteed.
C7_HigherScoreFirst ==
    search.fn \in {"search_entities", "search_communities"} =>
        LET res == ResultIndices
            sims == search.similarities
        IN  /\ \A a, b \in 1..Len(res) : a < b => sims[res[a]] >= sims[res[b]]
            /\ \A i, j \in 1..Len(sims) :
                  (sims[i] > sims[j] /\ Accepted(i) /\ Accepted(j)
                   /\ j \in Range(res)) => i \in Range(res)

\* two returned entities with different scores, and a tie returned last-seen first
C7_Witness ==
    /\ search.fn = "search_entities"
    /\ Len(ResultIndices) >= 2
    /\ \E a, b \in 1..Len(ResultIndices) :
          /\ a < b
          /\ search.similarities[ResultIndices[a]] = search.similarities[ResultIndices[b]]
          /\ ResultIndices[a] > ResultIndices[b]
    /\ \E i, j \in 1..Len(search.similarities) :
          /\ search.similarities[i] > search.similarities[j]
          /\ Accepted(i) /\ Accepted(j)

\* --------------------------------------------------------------------------
\* C8: check_cache on an empty cache returns (False, []) without calling the
\* generation collaborator, whatever turns exist.
C8_EmptyCacheNoCall ==
    (memop.op = "check_cache" /\ cache = <<>>)
        => /\ ~memop.raised
           /\ ~memop.is_cached
           /\ memop.info = <<>>
           /\ memop.gen_calls = 0

\* the cache is empty while the recent turns do hold retrieved context
C8_Witness ==
    /\ memop.op = "check_cache"
    /\ cache = <<>>
    /\ turns # <<>>
    /\ turns[Len(turns)].retrieved_context # <<>>

\* --------------------------------------------------------------------------
\* C9: check_cache returns is_cached = True with a non-empty bundle only when
\* the collaborator judged the cached context sufficient in that call; on a
\* "not sufficient" or missing verdict or a failed call it returns (False, []).
C9_CachedOnlyWhenSufficient ==
    memop.op = "check_cache" =>
        /\ ~memop.raised
        /\ memop.is_cached =>
              /\ memop.gen_calls = 1
              /\ memop.verdict = "sufficient"
              /\ memop.info # <<>>
        /\ memop.verdict \in {"not sufficient", "missing", "raised", "unparsable",
                              "not an object"} =>
              /\ ~memop.is_cached
              /\ memop.info = <<>>

\* a cache hit
C9_Witness ==
    /\ memop.op = "check_cache"
    /\ memop.is_cached
    /\ memop.info # <<>>

\* --------------------------------------------------------------------------
\* C10: add_turn appends exactly one turn at the end, earlier turns unchanged;
\* every bundle with a non-empty sub-query key is stored under that key, the
\* last bundle of a key winning; bundles without a key or with an empty one
\* leave the cache alone, and no other key is modified.
HasKey(b) == b.subquery \notin {"", Absent}

C10_AddTurnEffect ==
    [][memop'.op = "add_turn" =>
        LET bs == memop'.bundles
            keyed(k) == {i \in 1..Len(bs) : HasKey(bs[i]) /\ bs[i].subquery = k}
            last(k) == CHOOSE i \in keyed(k) : \A j \in keyed(k) : j <= i
        IN  /\ Len(turns') = Len(turns) + 1
            /\ SubSeq(turns', 1, Len(turns)) = turns
            /\ turns'[Len(turns')].retrieved_context = bs
            /\ \A i, j \in 1..Len(cache') : i # j => cache'[i].key # cache'[j].key
            /\ CacheKeys(cache') =
                  CacheKeys(cache) \cup {bs[i].subquery : i \in {j \in 1..Len(bs) : HasKey(bs[j])}}
            /\ \A k \in CacheKeys(cache') :
                  IF keyed(k) # {}
                  THEN CacheGet(cache', k) = bs[last(k)]
                  ELSE CacheGet(cache', k) = CacheGet(cache, k)
    ]_vars

\* a second turn whose bundles carry the same key twice, and one without a key
C10_Witness ==
    /\ memop.op = "add_turn"
    /\ Len(turns) >= 2
    /\ \E i, j \in 1..Len(memop.bundles) :
          /\ i < j
          /\ memop.bundles[i].subquery = memop.bundles[j].subquery
          /\ memop.bundles[i] # memop.bundles[j]
          /\ HasKey(memop.bundles[i])
    /\ "q2" \in CacheKeys(cache)

\* --------------------------------------------------------------------------
\* C11: for every max_size >= 0, clear_old_cache(max_size) leaves exactly the
\* min(previous size, max_size) most recently inserted keys, in insertion order
\* with their bundles unchanged; a cache not exceeding max_size is unchanged.
C11_KeepsMostRecent ==
    [][memop'.op = "clear_old_cache" =>
        LET keep == Min(Len(cache), memop'.max_cache_size)
        IN  /\ Len(cache') = keep
            /\ cache' = SubSeq(cache, Len(cache) - keep + 1, Len(cache))
            /\ turns' = turns
    ]_vars

\* --------------------------------------------------------------------------
\* C12: save_memory followed by load_memory into a freshly constructed memory
\* gives back the saved turn sequence and the saved cache mapping: keys, bundles
\* and insertion order.
C12_RoundTrip ==
    [][/\ memop'.op = "save_memory" =>
              /\ memory_file'.exists
              /\ load_memory(<<>>, <<>>, memory_file'.data) = [turns |-> turns, cache |-> cache]
              /\ UNCHANGED <<turns, cache>>
       /\ (memop'.op = "load_memory" /\ memory_file.exists /\ turns = <<>> /\ cache = <<>>) =>
              /\ ~memop'.raised
              /\ turns' = memory_file.saved.turns
              /\ cache' = memory_file.saved.cache
    ]_vars

\* a new session loaded a file holding a turn with bundles and a cache from
\* which the oldest entry had been evicted before the save
C12_Witness ==
    /\ memop.op = "load_memory"
    /\ ~memop.raised
    /\ turns # <<>>
    /\ turns = memory_file.saved.turns
    /\ cache = memory_file.saved.cache
    /\ turns[1].retrieved_context # <<>>
    /\ cache # <<>>
    /\ \E i \in 1..Len(turns) : \E j \in 1..Len(turns[i].retrieved_context) :
          /\ HasKey(turns[i].retrieved_context[j])
          /\ turns[i].retrieved_context[j].subquery \notin CacheKeys(cache)

\* --------------------------------------------------------------------------
\* the names listed as duplicates in the groups, and the canonical of a name
DuplicateNames(groups) == UNION {Range(groups[i].value) : i \in 1..Len(groups)}

CanonicalOf(groups, name) ==
    IF name \in DuplicateNames(groups)
    THEN groups[CHOOSE i \in 1..Len(groups) : name \in Range(groups[i].value)].key
    ELSE name

\* C13: deduplication is idempotent: once find_duplicate_entities and
\* merge_duplicate_entities have run, a second find_duplicate_entities on the
\* resulting store returns no groups.
C13_SecondFindEmpty ==
    [][(kg.op = "merge_duplicate_entities" /\ ~kg.raised
        /\ kg'.op = "find_duplicate_entities") => duplicates' = <<>>
    ]_vars

\* --------------------------------------------------------------------------
\* C14: after find_duplicate_entities and merge_duplicate_entities no two
\* distinct stored entities have similarity >= threshold, and the store has not
\* grown.
C14_NoSimilarLeft ==
    [][(kg'.op = "merge_duplicate_entities" /\ ~kg'.raised) =>
        /\ Len(entities') <= Len(entities)
        /\ \A i, j \in 1..Len(entities') :
              i # j => ~Similar(similar', entities'[i].name, entities'[j].name)
    ]_vars

\* --------------------------------------------------------------------------
\* C15: after merge_duplicate_entities every relationship has source # target:
\* relationships whose endpoints are mapped to the same canonical name and
\* self-loops that were there before are dropped, all others are kept in their
\* original order with their endpoints mapped to the canonical names.
C15_NoSelfLoops ==
    [][(kg'.op = "merge_duplicate_entities" /\ ~kg'.raised) =>
        LET mapped == [i \in 1..Len(relationships) |->
                          [relationships[i] EXCEPT
                              !.source = CanonicalOf(duplicates, relationships[i].source),
                              !.target = CanonicalOf(duplicates, relationships[i].target)]]
        IN  /\ \A i \in 1..Len(relationships') :
                  relationships'[i].source # relationships'[i].target
            /\ relationships' = SelectSeq(mapped, LAMBDA rel : rel.source # rel.target)
    ]_vars

\* Alicia was merged into Alice: of five relationships the one between the two
\* and the self-loop of Bob are gone, Alicia's relationship now starts at Alice
C15_Witness ==
    /\ kg.op = "merge_duplicate_entities"
    /\ ~kg.raised
    /\ duplicates # <<>>
    /\ Len(relationships) = 3
    /\ relationships[1] = Relationship("Alice", "Bob", "ally", "warm", 9)
    /\ relationships[2] = Relationship("Alice", "Bob", "cousin", NoneValue, 3)
    /\ relationships[3].source = "Bob"

\* --------------------------------------------------------------------------
\* C16: after merge_duplicate_entities with the groups find_duplicate_entities
\* returned, no name listed as a duplicate is a key of the entity store or an
\* endpoint of a relationship, and every endpoint a relationship was mapped to
\* is a stored entity.
C16_NoDuplicateNames ==
    [][(kg'.op = "merge_duplicate_entities" /\ ~kg'.raised) =>
        LET dups == DuplicateNames(duplicates)
            stored == Range(EntityNames(entities'))
            before == {relationships[i].source : i \in 1..Len(relationships)}
                      \cup {relationships[i].target : i \in 1..Len(relationships)}
        IN  /\ dups \cap stored = {}
            /\ \A i \in 1..Len(duplicates) : duplicates[i].key \in stored
            /\ \A i \in 1..Len(relationships') :
                  \A end \in {relationships'[i].source, relationships'[i].target} :
                      /\ end \notin dups
                      /\ end \in (before \ dups) \cup stored
    ]_vars

\* two groups were merged and a relationship of a duplicate was mapped
C16_Witness ==
    /\ kg.op = "merge_duplicate_entities"
    /\ ~kg.raised
    /\ Len(duplicates) = 2
    /\ DuplicateNames(duplicates) \cap Range(EntityNames(entities)) = {}
    /\ \E i \in 1..Len(relationships) :
          /\ relationships[i].description = "cousin"
          /\ relationships[i].source = "Alice"

\* --------------------------------------------------------------------------
\* the longest of the canonical's and the duplicates' values of a field, the
\* earliest of them on equal length
LongestOf(canonical_entity, dup_entities, field) ==
    LET vals == <<Field(canonical_entity, field)>>
                \o [i \in 1..Len(dup_entities) |-> Field(dup_entities[i], field)]
        best == CHOOSE i \in 1..Len(vals) :
                   /\ \A j \in 1..Len(vals) : Len(vals[j]) <= Len(vals[i])
                   /\ \A j \in 1..(i - 1) : Len(vals[j]) < Len(vals[i])
    IN  vals[best]

RECURSIVE AllExemplars(_)
AllExemplars(dup_entities) ==
    IF dup_entities = <<>> THEN <<>>
    ELSE Head(dup_entities).style_exemplars \o AllExemplars(Tail(dup_entities))

\* the canonical's exemplars, then the duplicates' exemplars that are not among
\* them, each once, in the order of their first occurrence
UnionOfExemplars(canonical_entity, dup_entities) ==
    LET all == AllExemplars(dup_entities)
        new == SelectSeq([i \in 1..Len(all) |-> i],
                         LAMBDA i : /\ all[i] \notin Range(canonical_entity.style_exemplars)
                                    /\ \A j \in 1..(i - 1) : all[j] # all[i])
    IN  canonical_entity.style_exemplars \o [k \in 1..Len(new) |-> all[new[k]]]

\* C17 as claimed: merging a group keeps, for each of persona, style_description
\* and description, the longest value among canonical and duplicates, and makes
\* style_exemplars the union in first-occurrence order, under the canonical's name.
C17_LongestOfAllFields ==
    [][(kg'.op = "merge_duplicate_entities" /\ ~kg'.raised) =>
        \A g \in 1..Len(duplicates) :
            LET c == GetEntity(entities, duplicates[g].key)
                ds == [i \in 1..Len(duplicates[g].value) |->
                          GetEntity(entities, duplicates[g].value[i])]
                m == GetEntity(entities', duplicates[g].key)
            IN  /\ m.name = c.name
                /\ \A f \in {"persona", "style_description", "description"} :
                      Field(m, f) = LongestOf(c, ds, f)
                /\ m.style_exemplars = UnionOfExemplars(c, ds)
    ]_vars

\* C17 amended: merging a group keeps the canonical's name and type and merges
\* the fields of the canonical's type only: for a character canonical persona
\* and style_description become the longest value among canonical and
\* duplicates (the earliest on equal length) and style_exemplars the canonical's
\* list followed by the duplicates' new exemplars, description stays as it was;
\* for a non-character canonical description becomes the longest value and the
\* other fields stay as they were.
C17_MergePolicyByType ==
    [][(kg'.op = "merge_duplicate_entities" /\ ~kg'.raised) =>
        \A g \in 1..Len(duplicates) :
            LET c == GetEntity(entities, duplicates[g].key)
                ds == [i \in 1..Len(duplicates[g].value) |->
                          GetEntity(entities, duplicates[g].value[i])]
                m == GetEntity(entities', duplicates[g].key)
            IN  /\ m.name = c.name
                /\ m.type = c.type
                /\ IF c.type = "character"
                   THEN /\ Field(m, "persona") = LongestOf(c, ds, "persona")
                        /\ Field(m, "style_description") = LongestOf(c, ds, "style_description")
                        /\ m.style_exemplars = UnionOfExemplars(c, ds)
                        /\ m.description = c.description
                   ELSE /\ Field(m, "description") = LongestOf(c, ds, "description")
                        /\ m.persona = c.persona
                        /\ m.style_description = c.style_description
                        /\ m.style_exemplars = c.style_exemplars
    ]_vars

\* Alice ("A hero") and Alicia ("A heroine") became one entity Alice with the
\* longer persona and the exemplars of both
C17_Witness ==
    /\ kg.op = "merge_duplicate_entities"
    /\ ~kg.raised
    /\ duplicates = <<[key |-> "Alice", value |-> <<"Alicia">>]>>
    /\ Len(entities) = 1
    /\ entities[1].name = "Alice"
    /\ entities[1].persona = "A heroine"
    /\ entities[1].style_exemplars = <<"e1", "e2">>

\* --------------------------------------------------------------------------
\* C18: build_graph: when several relationships connect the same pair of
\* entities, they are all kept as parallel edges or the one of the highest
\* strength gives the edge its description, attitude and strength; the edge
\* never just carries the attributes of the relationship that came last.
C18_EdgeNotLastWins ==
    kg.op = "build_graph" =>
        \A i \in 1..Len(relationships) :
            LET rel == relationships[i]
                same == {j \in 1..Len(relationships) :
                            /\ relationships[j].source = rel.source
                            /\ relationships[j].target = rel.target}
                between == {e \in 1..Len(graph.edges) :
                               graph.edges[e].ends = {rel.source, rel.target}}
            IN  (/\ Cardinality(same) > 1
                 /\ \A j \in same \ {i} : relationships[j].strength < rel.strength)
                => \/ Cardinality(between) = Cardinality(same)
                   \/ \E e \in between :
                         /\ graph.edges[e].description = rel.description
                         /\ graph.edges[e].attitude = rel.attitude
                         /\ graph.edges[e].strength = rel.strength

\* --------------------------------------------------------------------------
\* C19: classify_community depends only on the numbers of character and of
\* non-character members: character-focused iff the characters strictly
\* outnumber the others, event-focused otherwise, also on a tie and on an empty
\* member list (3 + 1 -> character-focused, 1 + 1 -> event-focused).
CharactersIn(members) ==
    Len(SelectSeq(members, LAMBDA name : det_node_type[name] = "character"))

OthersIn(members) ==
    Len(SelectSeq(members, LAMBDA name : det_node_type[name] # "character"))

C19_ClassifyByCounts ==
    /\ det.op = "classify_community" =>
          LET members == det.communities[1]
          IN  /\ det.type \in CommunityTypes
              /\ det.type = "character-focused" <=> CharactersIn(members) > OthersIn(members)
              /\ (CharactersIn(members) = 3 /\ OthersIn(members) = 1)
                    => det.type = "character-focused"
              /\ CharactersIn(members) = OthersIn(members) => det.type = "event-focused"
              /\ members = <<>> => det.type = "event-focused"
    /\ det.op = "process_communities" =>
          \A k \in 1..Len(det.result) :
              det.result[k].type = "character-focused"
                 <=> CharactersIn(det.result[k].members) > OthersIn(det.result[k].members)

\* three characters and one non-character were classified character-focused
C19_Witness ==
    /\ det.op = "classify_community"
    /\ CharactersIn(det.communities[1]) = 3
    /\ OthersIn(det.communities[1]) = 1
    /\ det.type = "character-focused"

\* --------------------------------------------------------------------------
\* C20: process_communities(communities, min_size) outputs exactly the detected
\* communities with at least min_size members, in detection order with ids
\* increasing in that order; a smaller community is neither classified nor
\* summarized and is not in the list the detector stores and saves.
IdIndex(id) == CHOOSE i \in 1..Len(AllIds) : AllIds[i] = id

C20_ProcessOutput ==
    det.op = "process_communities" =>
        LET kept == SelectSeq([i \in 1..Len(det.communities) |-> i],
                              LAMBDA i : Len(det.communities[i]) >= det.min_size)
            ids == [k \in 1..Len(kept) |-> AllIds[kept[k]]]
        IN  /\ Len(det.result) = Len(kept)
            /\ \A k \in 1..Len(kept) :
                  /\ det.result[k].members = det.communities[kept[k]]
                  /\ det.result[k].size = Len(det.communities[kept[k]])
            /\ \A k \in 1..(Len(det.result) - 1) :
                  IdIndex(det.result[k].id) < IdIndex(det.result[k + 1].id)
            /\ det.classified = ids
            /\ det.calls = ids
            /\ det_communities = det.result
            /\ \A k \in 1..Len(det_communities) : det_communities[k].size >= det.min_size

\* --------------------------------------------------------------------------
\* C21: generate_community_summary does not raise when generate() raised: the
\* community whose generation call failed gets the template summary with N = the
\* number of its members, the others get the generated text, and
\* process_communities goes on to every remaining community of at least min_size
KeptCommunities ==
    SelectSeq([i \in 1..Len(det.communities) |-> i],
              LAMBDA i : Len(det.communities[i]) >= det.min_size)

C21_SummaryDegrades ==
    det.op = "process_communities" =>
        /\ ~det.raised
        /\ Len(det.calls) = Len(KeptCommunities)
        /\ Len(det.result) = Len(KeptCommunities)
        /\ \A k \in 1..Len(det.result) :
              /\ det.result[k].members = det.communities[KeptCommunities[k]]
              /\ det.result[k].summary =
                    IF k \in det.failing
                    THEN [text |-> "template", n |-> Len(det.result[k].members)]
                    ELSE [text |-> "generated", n |-> 0]

\* the first generation call failed and a later community was still summarized
C21_Witness ==
    /\ det.op = "process_communities"
    /\ det.failing = {1}
    /\ Len(det.result) >= 2
    /\ det.result[1].summary = [text |-> "template", n |-> Len(det.result[1].members)]
    /\ det.result[2].summary.text = "generated"

\* --------------------------------------------------------------------------
\* C22: a sub-query that produces no information (its target matches no node,
\* the target is missing from the sub-query, or a node matches but the type
\* yields no facts) makes search_graph return the 'No information found'
\* marker: it does not raise and does not return the empty string
C22_NoInformationMarker ==
    lookup.op = "search_graph" =>
        /\ ~lookup.raised
        /\ (lookup.lines = <<>>) => lookup.marker

\* --------------------------------------------------------------------------
\* C23: generate makes at most `retry` attempts, stops at the first successful
\* one and returns its text, has slept 2^attempt seconds after each failed
\* attempt but the last, raises exactly when all `retry` attempts failed, and
\* never returns a value without a successful attempt
Attempts == Len(gen.outcomes)

C23_RetryContract ==
    /\ Attempts <= gen.retry
    /\ \A k \in 1..(Attempts - 1) : AttemptFailed(gen.outcomes[k])
    /\ gen.pc = "returned" =>
          /\ Attempts >= 1
          /\ ~AttemptFailed(gen.outcomes[Attempts])
          /\ gen.result = gen.outcomes[Attempts]
          /\ gen.slept = [k \in 1..(Attempts - 1) |-> 2 ^ (k - 1)]
    /\ gen.pc = "raised" =>
          /\ Attempts = gen.retry
          /\ \A k \in 1..Attempts : AttemptFailed(gen.outcomes[k])
          /\ gen.slept = [k \in 1..(Attempts - 1) |-> 2 ^ (k - 1)]
    /\ (gen.pc \in {"returned", "raised"}
        /\ Attempts = gen.retry
        /\ \A k \in 1..Attempts : AttemptFailed(gen.outcomes[k])) => gen.pc = "raised"

\* --------------------------------------------------------------------------
\* C24: get_recent_turns(k) returns, for every k >= 0 and every turn sequence of
\* length n, the final min(k, n) turns in their original order
C24_LastKTurns ==
    memop.op = "get_recent_turns" =>
        LET n == Len(turns)
            m == Min(memop.k, n)
        IN  /\ Len(memop.recent) = m
            /\ \A i \in 1..m : memop.recent[i] = turns[n - m + i]

\* --------------------------------------------------------------------------
\* C25: merge_duplicate_entities completes on the groups find_duplicate_entities
\* produced on the same store, for every store and every symmetric similarity
\* relation: every canonical and duplicate is still stored when merge reads it
C25_MergeCompletes ==
    kg.op = "merge_duplicate_entities" => ~kg.raised

\* --------------------------------------------------------------------------
\* C26: the groups find_duplicate_entities returns are pairwise disjoint: no
\* name is in two groups, as canonical or as duplicate, and no name is listed
\* twice within a group
GroupMembers(group) == {group.key} \cup Range(group.value)

C26_GroupsDisjoint ==
    kg.op = "find_duplicate_entities" =>
        /\ \A i, j \in 1..Len(duplicates) :
              i # j => GroupMembers(duplicates[i]) \cap GroupMembers(duplicates[j]) = {}
        /\ \A i \in 1..Len(duplicates) :
              Cardinality(GroupMembers(duplicates[i])) = Len(duplicates[i].value) + 1

\* --------------------------------------------------------------------------
\* C27: every bundle check_cache returns as cached is an entry of the cache at
\* that moment: not one that clear_old_cache evicted, and not one whose
\* sub-query key was empty and that never entered the cache
CacheValues == {cache[j].value : j \in 1..Len(cache)}

C27_ReturnsCacheEntries ==
    (memop.op = "check_cache" /\ memop.is_cached) =>
        \A i \in 1..Len(memop.info) : memop.info[i] \in CacheValues

\* --------------------------------------------------------------------------
\* C28: within one query, the query is decomposed once, a sub-query that
\* check_cache answered as cached is not retrieved, and the sub-queries that
\* retrieve looks up first are among those judged not cached
C28_CachedNotRetrievedAgain ==
    sys.pc \in {"generate", "done"} =>
        /\ sys.decompose_calls = 1
        /\ \A i \in 1..Len(sys.subqueries) :
              sys.checked[i] =>
                 \A j \in 1..Len(sys.new_retrieved) :
                    sys.new_retrieved[j].subquery # sys.subqueries[i].text
        /\ \A j \in 1..sys.initial :
              \E i \in 1..Len(sys.queries_to_retrieve) :
                 sys.new_retrieved[j].subquery = sys.queries_to_retrieve[i].text

\* --------------------------------------------------------------------------
\* C29: reflect_and_iterate answers "not sufficient" only together with a new
\* sub-query of non-empty text, an insufficient verdict without a usable new
\* sub-query is reported as sufficient, and in retrieve every insufficient
\* round retrieves that sub-query and appends exactly one bundle
C29_InsufficientRetrieves ==
    [][/\ (pc = "reflecting" /\ reflections' # reflections) =>
             LET r == reflections'[Len(reflections')]
             IN  /\ ~r.is_sufficient =>
                       /\ r.new_subquery # <<>>
                       /\ r.new_subquery[1].text \notin {"", Absent, NonString}
                       /\ pc' = "round"
                 /\ reflect_reply' \in {"insufficient, no sub-query",
                                        "insufficient, unusable sub-query"}
                       => r = [is_sufficient |-> TRUE, new_subquery |-> <<>>]
       /\ pc = "round" =>
             /\ Len(all_retrieved') = Len(all_retrieved) + 1
             /\ all_retrieved'[Len(all_retrieved')].subquery = new_subquery[1].text
             /\ retrieveCalls' = retrieveCalls + 1
             /\ iteration' = iteration + 1]_vars

\* an insufficient round retrieved one bundle, then an insufficient verdict
\* without a usable sub-query ended the loop as sufficient
C29_Witness ==
    /\ pc = "done"
    /\ Len(reflections) = 2
    /\ ~reflections[1].is_sufficient
    /\ reflections[2].is_sufficient
    /\ reflect_reply = "insufficient, unusable sub-query"
    /\ Len(all_retrieved) = Len(subqueries) + 1
    /\ iteration = 1

\* C30: starting from an empty memory, after any sequence of add_turn and
\* clear_old_cache calls every cache entry is keyed by the sub-query text of
\* its own bundle, that key is present and non-empty, and the cached bundle
\* occurs in the retrieved_context of some stored turn
C30_CacheKeyedAndBacked ==
    \A j \in 1..Len(cache) :
        /\ cache[j].value.subquery = cache[j].key
        /\ cache[j].key \notin {"", Absent}
        /\ \E t \in 1..Len(turns) :
              \E i \in 1..Len(turns[t].retrieved_context) :
                  turns[t].retrieved_context[i] = cache[j].value

\* clear_old_cache has evicted the entry of a bundle that a stored turn still
\* holds, after a turn with a bundle without a key and a turn that carried on
C30_Witness ==
    /\ memop.op = "clear_old_cache"
    /\ Len(turns) = 2
    /\ Len(cache) = 2
    /\ \E i \in 1..Len(turns[1].retrieved_context) :
          ~HasKey(turns[1].retrieved_context[i])
    /\ \E i \in 1..Len(turns[1].retrieved_context) :
          /\ HasKey(turns[1].retrieved_context[i])
          /\ turns[1].retrieved_context[i].subquery \notin CacheKeys(cache)

====
